---- MODULE Spec2Model ----
(***************************************************************************)
(* A model of the chess program: ChessEngine (minimax with alpha-beta      *)
(* pruning, get_best_move, set_depth), the evaluator, the move orderer,    *)
(* and the three user interfaces that drive the engine (the desktop GUI,   *)
(* the web GUI and the terminal menu).                                     *)
(*                                                                         *)
(* The Rules Engine (python-chess) is an external collaborator.  A game is *)
(* therefore an abstract game tree: a position is a node, reached from the *)
(* game's first position by the move stack; each node records what the     *)
(* code asks the Rules Engine about it (legal moves in enumeration order,  *)
(* is_check, draw status) and the value the heuristic part of              *)
(* evaluate_board gives it.                                                *)
(*                                                                         *)
(* Specifications: Spec (the engine's life cycle), SpecSearch (one call of *)
(* minimax as a function), SpecSteps (the same call run step by step with  *)
(* its call stack), SpecOrder (get_ordered_moves step by step),            *)
(* SpecPriority (move_priority on the kinds of legal moves), SpecEval      *)
(* (evaluate_board on pieces, with the piece-square tables), SpecEndgame   *)
(* (is_endgame on piece counts), SpecWindow (minimax step by step under    *)
(* any open window), SpecGui (the desktop GUI and its timers), SpecWeb     *)
(* (the web GUI and its request threads), SpecChoice (the difficulty       *)
(* prompt) and SpecMenu (the main menu of the terminal UI).                *)
(***************************************************************************)
EXTENDS Integers, Sequences, FiniteSets, TLC

VARIABLES
    game,             \* which game tree the board belongs to (index in Games)
    board,            \* chess.Board.move_stack: the moves pushed so far
    depth,            \* ChessEngine.depth
    nodes_evaluated,  \* ChessEngine.nodes_evaluated
    pruning_count,    \* ChessEngine.pruning_count
    ret,              \* value returned by the last call (<<>> is Python's None)
    call,             \* the last call: [op, arg, maximizing]
    frames,           \* the Python call stack: one record per active call
    entry,            \* the move stack as it was when the running call began
    position,         \* the pieces and the side to move the evaluator reads
    human_color,      \* ChessGUI.human_color
    game_mode,        \* ChessGUI.game_mode
    selected_square,  \* desktop ChessGUI.selected_square: a piece is selected or not
    timers,           \* desktop GUI: the callbacks scheduled with master.after
    move_history,     \* web ChessGUI.move_history: the recorded moves
    threads,          \* web GUI: the requests being handled, one per thread
    current_difficulty  \* main.py: the global current_difficulty

\* the variables of the user interfaces
ui_vars == <<human_color, game_mode, selected_square, timers, move_history,
             threads, current_difficulty>>

vars == <<game, board, depth, nodes_evaluated, pruning_count, ret, call,
          frames, entry, position, ui_vars>>

(***************************************************************************)
(* Bounds of the model.                                                    *)
(***************************************************************************)
MaxMoves == 3     \* most legal moves of a position in a generated tree
MaxPly == 3       \* longest line of a generated tree
NumTrees == 40    \* generated game trees (the searched family)
NumGames == 5     \* games played in the engine life-cycle specification
MaxDepth == 4     \* largest depth argument of a direct search
StepGames == 12   \* games searched step by step
MaxExtra == 2     \* pieces besides the kings in an evaluated position
MaxMobility == 2  \* most legal moves of a side in an evaluated position
MaxCount == 2     \* most queens, knights or bishops of one color in is_endgame
GuiTrees == 5     \* game trees played in the desktop GUI
MaxTimers == 2    \* most callbacks pending in the desktop GUI
WebTrees == 3     \* game trees played in the web GUI
MaxInput == 2     \* most characters in a line entered at the difficulty prompt

(***************************************************************************)
(* Program constants.                                                      *)
(***************************************************************************)
CHECKMATE_SCORE == 100000
DRAW_SCORE == 0
DEFAULT_DEPTH == 3
MIN_DEPTH == 1
MAX_DEPTH == 10
CHECK_BONUS == 900
PROMOTION_BONUS == 800
CENTER_BONUS == 50
DEFAULT_DIFFICULTY == 3
None == 0         \* the move None; real moves are numbered from 1

\* math.inf: larger than every score evaluate_board can return
inf == CHECKMATE_SCORE + 1

WHITE == TRUE
BLACK == FALSE

\* the user interfaces as their constructors leave them (gui.py lines 22-27,
\* gui_fixed.py lines 30-35, main.py line 520)
UIAtStart ==
    /\ human_color = WHITE
    /\ game_mode = "human_vs_ai"
    /\ selected_square = FALSE
    /\ timers = <<>>
    /\ move_history = <<>>
    /\ threads = <<>>
    /\ current_difficulty = DEFAULT_DIFFICULTY

max(a, b) == IF a >= b THEN a ELSE b
min(a, b) == IF a <= b THEN a ELSE b

(***************************************************************************)
(* Game trees.  A node is a record                                         *)
(*   moves : the positions after each legal move, in legal_moves order     *)
(*   check : board.is_check()                                              *)
(*   draw  : "none", "insufficient" (is_insufficient_material) or "rule"   *)
(*           (seventy-five moves or fivefold repetition: is_game_over is   *)
(*           true although legal moves exist)                              *)
(*   score : material + 0.1 positional + 2 mobility of evaluate_board      *)
(*   bonus : the capture + promotion + centre part of the priority of the  *)
(*           move that leads to this node                                  *)
(* A position without legal moves is checkmate when in check, stalemate    *)
(* otherwise, so every line of a tree ends in a game-over position.        *)
(***************************************************************************)
Mated(bonus) ==
    [moves |-> <<>>, check |-> TRUE, draw |-> "none", score |-> 0, bonus |-> bonus]
Stalemated(bonus) ==
    [moves |-> <<>>, check |-> FALSE, draw |-> "none", score |-> 0, bonus |-> bonus]
Pos(score, check, bonus, moves) ==
    [moves |-> moves, check |-> check, draw |-> "none", score |-> score, bonus |-> bonus]

\* Black to move after 1.f3 e5 2.g4: a quiet move, a centre move, and Qh4 mate.
FoolsMate ==
    [turn |-> BLACK,
     root |-> Pos(1, FALSE, 0,
        << Pos(2, FALSE, 0, << Stalemated(0) >>),
           Pos(1, FALSE, 50, << Pos(0, FALSE, 0, << Stalemated(0) >>) >>),
           Mated(0) >>)]

\* Black to move: a queen capture with check that forces mate two moves
\* later is ordered before a quiet move that mates at once.
MateInOneOrThree ==
    [turn |-> BLACK,
     root |-> Pos(0 - 5, FALSE, 0,
        << Mated(0),
           Pos(0 - 9, TRUE, 89, << Pos(0 - 9, FALSE, 0, << Mated(50) >>) >>),
           Pos(0 - 5, FALSE, 50, << Stalemated(0) >>) >>)]

\* White to move: after a stalemating move (value 0) the second move has three
\* replies that look good for white statically; the first of them loses the
\* advantage one move later.
DeeperPrunes ==
    [turn |-> WHITE,
     root |-> Pos(1, FALSE, 0,
        << Stalemated(50),
           Pos(2, FALSE, 0,
              << Pos(2, FALSE, 0, << Stalemated(0) >>),
                 Pos(2, FALSE, 0, << Stalemated(0) >>),
                 Pos(2, FALSE, 0, << Stalemated(0) >>) >>) >>)]

Curated == << FoolsMate, MateInOneOrThree, DeeperPrunes >>

\* A generated tree: the attributes of the node at path p of tree g are drawn
\* by a fixed arithmetic scramble of (g, p), so the family is varied and fixed.
RECURSIVE Code(_)
Code(p) == IF p = <<>> THEN 1
           ELSE Code(SubSeq(p, 1, Len(p) - 1)) * (MaxMoves + 1) + p[Len(p)]

Rnd(g, p, salt) ==
    LET x == (g * 131 + Code(p) * 31 + salt * 17) % 1009
        y == (x * x + 7 * x + 3) % 1013
    IN  (y * y + x) % 997

GenMoves(g, p) ==
    LET r == Rnd(g, p, 1)
    IN  IF Len(p) >= MaxPly \/ (r % 7 = 0 /\ Len(p) > 0) THEN 0
        ELSE 1 + ((r \div 7) % MaxMoves)

GenDraw(g, p) ==
    LET r == Rnd(g, p, 3) % 16
    IN  IF GenMoves(g, p) = 0 THEN "none"
        ELSE IF r = 0 THEN "insufficient"
        ELSE IF r = 1 THEN "rule"
        ELSE "none"

GenBonus(g, p) == << 0, 0, 50, 7, 89, 800 >>[1 + (Rnd(g, p, 5) % 6)]

\* With insufficient material no move can deliver checkmate: the moves of such
\* a position lead to quiet positions, which the search never enters.
RECURSIVE Gen(_, _)
Gen(g, p) ==
    IF Len(p) > 0 /\ GenDraw(g, SubSeq(p, 1, Len(p) - 1)) = "insufficient"
    THEN Stalemated(0)
    ELSE [moves |-> [m \in 1..GenMoves(g, p) |-> Gen(g, Append(p, m))],
          check |-> (Rnd(g, p, 2) % 2 = 0),
          draw  |-> GenDraw(g, p),
          score |-> (Rnd(g, p, 4) % 5) - 2,
          bonus |-> GenBonus(g, p)]

Games ==
    Curated \o [g \in 1..NumTrees |-> [turn |-> (g % 2 = 0), root |-> Gen(g, <<>>)]]

(***************************************************************************)
(* What the code asks the Rules Engine about the position (g, b).          *)
(***************************************************************************)
RECURSIVE At(_, _)
At(node, b) == IF b = <<>> THEN node ELSE At(node.moves[Head(b)], Tail(b))

Node(g, b) == At(Games[g].root, b)

\* board.turn: the side to move alternates with every pushed move
turn(g, b) == IF Len(b) % 2 = 0 THEN Games[g].turn ELSE ~Games[g].turn

legal_moves(g, b) == [m \in 1..Len(Node(g, b).moves) |-> m]

is_check(g, b) == Node(g, b).check
is_checkmate(g, b) == Len(Node(g, b).moves) = 0 /\ Node(g, b).check
is_stalemate(g, b) == Len(Node(g, b).moves) = 0 /\ ~Node(g, b).check
is_insufficient_material(g, b) == Node(g, b).draw = "insufficient"
is_game_over(g, b) ==
    \/ is_checkmate(g, b)
    \/ is_stalemate(g, b)
    \/ Node(g, b).draw # "none"

push(b, move) == Append(b, move)

pop_forgotten(b) == b

pop(b) == SubSeq(b, 1, Len(b) - 1)

\* every position a game can reach: moves are pushed while the game is not over
RECURSIVE Reach(_, _)
Reach(g, b) ==
    {b} \cup (IF is_game_over(g, b) THEN {}
              ELSE UNION {Reach(g, push(b, m)) : m \in 1..Len(Node(g, b).moves)})

Positions(g) == Reach(g, <<>>)

(***************************************************************************)
(* evaluation.py: evaluate_board.                                          *)
(***************************************************************************)
\* lines 200-231: material + 0.1 positional + 2 mobility of a position
total_score(g, b) == Node(g, b).score

evaluate_board_no_turn(g, b) ==
    IF is_checkmate(g, b) THEN 0 - CHECKMATE_SCORE
    ELSE IF is_stalemate(g, b) \/ is_insufficient_material(g, b) THEN DRAW_SCORE
    ELSE total_score(g, b)

evaluate_board_no_draw(g, b) ==
    IF is_checkmate(g, b)
    THEN (IF turn(g, b) = WHITE THEN 0 - CHECKMATE_SCORE ELSE CHECKMATE_SCORE)
    ELSE total_score(g, b)

evaluate_board(g, b) ==
    IF is_checkmate(g, b)
    THEN (IF turn(g, b) = WHITE THEN 0 - CHECKMATE_SCORE ELSE CHECKMATE_SCORE)
    ELSE IF is_stalemate(g, b) \/ is_insufficient_material(g, b) THEN DRAW_SCORE
    ELSE total_score(g, b)

(***************************************************************************)
(* utils.py: get_ordered_moves.                                            *)
(***************************************************************************)
\* move_priority: capture + promotion + centre bonus of the move, plus 900
\* when the position after the move is check (push, is_check, pop)
move_priority(g, b, move) ==
    Node(g, push(b, move)).bonus
        + (IF is_check(g, push(b, move)) THEN CHECK_BONUS ELSE 0)

\* moves.sort(key=move_priority, reverse=True): descending and stable, so the
\* place of a move is the number of moves that sort before it
SortPlace(g, b, move) ==
    1 + Cardinality({k \in 1..Len(legal_moves(g, b)) :
            \/ move_priority(g, b, k) > move_priority(g, b, move)
            \/ (move_priority(g, b, k) = move_priority(g, b, move) /\ k < move)})

get_ordered_moves(g, b) ==
    [i \in 1..Len(legal_moves(g, b)) |->
        CHOOSE move \in 1..Len(legal_moves(g, b)) : SortPlace(g, b, move) = i]

(***************************************************************************)
(* chess_engine.py: ChessEngine.minimax.                                   *)
(***************************************************************************)
\* line 48: the terminal test
is_terminal_depth_only(g, b, d) == d = 0

is_terminal_over_only(g, b, d) == is_game_over(g, b)

is_terminal(g, b, d) == d = 0 \/ is_game_over(g, b)

\* lines 62 and 83: strict comparison against the best score so far
improves_or_ties(maximizing_player, eval_score, best_eval) ==
    IF maximizing_player THEN eval_score >= best_eval ELSE eval_score <= best_eval

improves_always(maximizing_player, eval_score, best_eval) == TRUE

improves_never(maximizing_player, eval_score, best_eval) == FALSE

improves(maximizing_player, eval_score, best_eval) ==
    IF maximizing_player THEN eval_score > best_eval ELSE eval_score < best_eval

\* lines 66 and 87: the bound of the side to move is tightened
new_alpha(maximizing_player, alpha, eval_score) ==
    IF maximizing_player THEN max(alpha, eval_score) ELSE alpha

new_beta(maximizing_player, beta, eval_score) ==
    IF maximizing_player THEN beta ELSE min(beta, eval_score)

\* lines 69 and 90: the cutoff test
cutoff_inverted(alpha, beta) == beta >= alpha

cutoff_strict(alpha, beta) == beta < alpha

cutoff(alpha, beta) == beta <= alpha

\* lines 117-118: the window of a top-level search
root_window_zero_beta == [alpha |-> 0 - inf, beta |-> 0]

root_window == [alpha |-> 0 - inf, beta |-> inf]

\* The result of a call: the returned (score, move), the board as the call
\* leaves it, and what the call added to the engine's counters; pushes and
\* orderings count the calls of board.push and get_ordered_moves made by
\* minimax itself.
RECURSIVE minimax(_, _, _, _, _, _)
RECURSIVE search_moves(_, _, _, _, _, _, _, _, _)

\* lines 57-73 and 78-94: the loop over the ordered moves, from the i-th on;
\* acc holds max_eval/min_eval, best_move and the counters so far
search_moves(g, b, d, alpha, beta, maximizing_player, moves, i, acc) ==
    IF i > Len(moves) THEN acc
    ELSE
        LET move == moves[i]
            child == minimax(g, push(b, move), d - 1, alpha, beta, ~maximizing_player)
            eval_score == child.score
            better == improves(maximizing_player, eval_score, acc.score)
            a2 == new_alpha(maximizing_player, alpha, eval_score)
            b2 == new_beta(maximizing_player, beta, eval_score)
            cut == cutoff(a2, b2)
            acc2 == [score   |-> IF better THEN eval_score ELSE acc.score,
                     move    |-> IF better THEN move ELSE acc.move,
                     board   |-> pop(child.board),
                     nodes   |-> acc.nodes + child.nodes,
                     prunes  |-> acc.prunes + child.prunes + (IF cut THEN 1 ELSE 0),
                     pushes  |-> acc.pushes + 1 + child.pushes,
                     orderings |-> acc.orderings + child.orderings]
        IN  IF cut THEN acc2
            ELSE search_moves(g, acc2.board, d, a2, b2, maximizing_player, moves, i + 1, acc2)

minimax(g, b, d, alpha, beta, maximizing_player) ==
    IF is_terminal(g, b, d)
    THEN [score |-> evaluate_board(g, b), move |-> None, board |-> b,
          nodes |-> 1, prunes |-> 0, pushes |-> 0, orderings |-> 0]
    ELSE search_moves(g, b, d, alpha, beta, maximizing_player,
                      get_ordered_moves(g, b), 1,
                      [score |-> IF maximizing_player THEN 0 - inf ELSE inf,
                       move |-> None, board |-> b,
                       nodes |-> 1, prunes |-> 0, pushes |-> 0, orderings |-> 1])

\* line 134
clamp_depth_swapped(n) == min(MIN_DEPTH, max(n, MAX_DEPTH))

clamp_depth(n) == max(MIN_DEPTH, min(n, MAX_DEPTH))

(***************************************************************************)
(* The engine's life cycle: an engine constructed with any depth argument  *)
(* plays a game; set_depth, get_best_move and the game loop's board.push   *)
(* come in any order.                                                      *)
(***************************************************************************)
DepthArgs == ((0 - 1) .. MaxDepth) \cup {MAX_DEPTH - 1, MAX_DEPTH, MAX_DEPTH + 1, 15}

\* the specifications of the search read no pieces
NoPosition == [pieces |-> <<>>, turn |-> WHITE]

\* ChessEngine.__init__ on a new game
Init ==
    /\ game \in 1..NumGames
    /\ board = <<>>
    /\ depth \in DepthArgs
    /\ nodes_evaluated = 0
    /\ pruning_count = 0
    /\ ret = <<>>
    /\ call = [op |-> "__init__", arg |-> depth, maximizing |-> FALSE]
    /\ frames = <<>>
    /\ entry = <<>>
    /\ position = NoPosition
    /\ UIAtStart

set_depth(n) ==
    /\ depth' = clamp_depth(n)
    /\ ret' = <<>>
    /\ call' = [op |-> "set_depth", arg |-> n, maximizing |-> FALSE]
    /\ UNCHANGED <<game, board, nodes_evaluated, pruning_count>>
    /\ UNCHANGED <<frames, entry, position, ui_vars>>

\* lines 107-108: the statistics are set to zero before the search
reset_forgotten(count) == count

reset_statistics(count) == 0

get_best_move ==
    LET maximizing == (turn(game, board) = WHITE)
        r == minimax(game, board, depth, root_window.alpha, root_window.beta, maximizing)
    IN  /\ nodes_evaluated' = reset_statistics(nodes_evaluated) + r.nodes
        /\ pruning_count' = reset_statistics(pruning_count) + r.prunes
        /\ board' = r.board
        /\ ret' = << r.move >>
        /\ call' = [op |-> "get_best_move", arg |-> depth, maximizing |-> maximizing]
        /\ UNCHANGED <<game, depth>>
        /\ UNCHANGED <<frames, entry, position, ui_vars>>

\* GameManager: while not board.is_game_over(): ... board.push(move)
push_move(move) ==
    /\ ~is_game_over(game, board)
    /\ move \in 1..Len(legal_moves(game, board))
    /\ board' = push(board, move)
    /\ ret' = <<>>
    /\ call' = [op |-> "push", arg |-> move, maximizing |-> FALSE]
    /\ UNCHANGED <<game, depth, nodes_evaluated, pruning_count>>
    /\ UNCHANGED <<frames, entry, position, ui_vars>>

Next ==
    \/ \E n \in DepthArgs : set_depth(n)
    \/ get_best_move
    \/ \E move \in 1..MaxMoves : push_move(move)

Spec == Init /\ [][Next]_vars

(***************************************************************************)
(* The search as a function: a new engine, any position of any game, any   *)
(* depth >= 0 and either maximizing flag; one call of minimax with the     *)
(* full window, as get_best_move makes it.                                 *)
(***************************************************************************)
InitSearch ==
    /\ game \in 1..Len(Games)
    /\ board \in Positions(game)
    /\ depth = DEFAULT_DEPTH
    /\ nodes_evaluated = 0
    /\ pruning_count = 0
    /\ ret = <<>>
    /\ call \in [op : {"pending"}, arg : 0..MaxDepth, maximizing : BOOLEAN]
    /\ frames = <<>>
    /\ entry = <<>>
    /\ position = NoPosition
    /\ UIAtStart

minimax_call ==
    /\ call.op = "pending"
    /\ LET r == minimax(game, board, call.arg, root_window.alpha, root_window.beta,
                        call.maximizing)
       IN  /\ nodes_evaluated' = nodes_evaluated + r.nodes
           /\ pruning_count' = pruning_count + r.prunes
           /\ board' = r.board
           /\ ret' = << r.score, r.move >>
    /\ call' = [call EXCEPT !.op = "minimax"]
    /\ UNCHANGED <<game, depth>>
    /\ UNCHANGED <<frames, entry, position, ui_vars>>

NextSearch == minimax_call

SpecSearch == InitSearch /\ [][NextSearch]_vars

(***************************************************************************)
(* The search step by step: the same call of minimax, run as the           *)
(* interpreter runs it.  frames is the call stack, one record per active   *)
(* invocation holding its arguments and locals; pc is where the invocation *)
(* stands: "enter" before line 45, "loop" at the head of the for loop,     *)
(* "wait" inside the recursive call of line 59 or 80.  explored is not in   *)
(* the code: it keeps the scores the invocation's children have returned,  *)
(* so that properties can speak of them.                                   *)
(***************************************************************************)
NewFrame(d, alpha, beta, maximizing_player) ==
    [depth |-> d, alpha |-> alpha, beta |-> beta,
     maximizing_player |-> maximizing_player,
     moves |-> <<>>, i |-> 0, best_eval |-> 0, best_move |-> None, pc |-> "enter",
     explored |-> <<>>]

Top == frames[Len(frames)]

\* a return statement of minimax: the invocation's frame goes, the caller
\* finds the pair in ret
Return(score, move) ==
    /\ frames' = SubSeq(frames, 1, Len(frames) - 1)
    /\ ret' = << score, move >>
    /\ call' = IF Len(frames) = 1 THEN [call EXCEPT !.op = "minimax"] ELSE call

InitSteps ==
    /\ game \in 1..StepGames
    /\ board \in Positions(game)
    /\ depth = DEFAULT_DEPTH
    /\ nodes_evaluated = 0
    /\ pruning_count = 0
    /\ ret = <<>>
    /\ call \in [op : {"pending"}, arg : 0..MaxDepth, maximizing : BOOLEAN]
    /\ frames = <<>>
    /\ entry = board
    /\ position = NoPosition
    /\ UIAtStart

\* the top-level call, with the window get_best_move passes
minimax_begin ==
    /\ call.op = "pending"
    /\ frames' = << NewFrame(call.arg, root_window.alpha, root_window.beta,
                             call.maximizing) >>
    /\ call' = [call EXCEPT !.op = "running"]
    /\ UNCHANGED <<game, board, depth, nodes_evaluated, pruning_count, ret,
                   entry, position, ui_vars>>

\* lines 45-49: count the node; depth 0 or game over returns the evaluation
minimax_leaf ==
    /\ frames # <<>>
    /\ Top.pc = "enter"
    /\ is_terminal(game, board, Top.depth)
    /\ nodes_evaluated' = nodes_evaluated + 1
    /\ Return(evaluate_board(game, board), None)
    /\ UNCHANGED <<game, board, depth, pruning_count, entry, position, ui_vars>>

\* lines 45-56 (77-78): count the node, order the moves, start the loop
minimax_expand ==
    /\ frames # <<>>
    /\ Top.pc = "enter"
    /\ ~is_terminal(game, board, Top.depth)
    /\ nodes_evaluated' = nodes_evaluated + 1
    /\ frames' = [frames EXCEPT ![Len(frames)] =
                    [@ EXCEPT !.moves = get_ordered_moves(game, board),
                              !.i = 1,
                              !.best_eval = IF Top.maximizing_player THEN 0 - inf
                                           ELSE inf,
                              !.pc = "loop"]]
    /\ UNCHANGED <<game, board, depth, pruning_count, ret, call, entry, position, ui_vars>>

\* lines 57-59 (78-80): apply the next move and call minimax on the result
minimax_descend ==
    /\ frames # <<>>
    /\ Top.pc = "loop"
    /\ Top.i <= Len(Top.moves)
    /\ board' = push(board, Top.moves[Top.i])
    /\ frames' = Append([frames EXCEPT ![Len(frames)].pc = "wait"],
                        NewFrame(Top.depth - 1, Top.alpha, Top.beta,
                                 ~Top.maximizing_player))
    /\ UNCHANGED <<game, depth, nodes_evaluated, pruning_count, ret, call,
                   entry, position, ui_vars>>

\* lines 60-71 (81-92): undo the move, keep a strictly better score, tighten
\* the bound, and on a cutoff count it and leave the loop
minimax_resume ==
    /\ frames # <<>>
    /\ Top.pc = "wait"
    /\ board' = pop(board)
    /\ LET eval_score == ret[1]
           better == improves(Top.maximizing_player, eval_score, Top.best_eval)
           best_eval == IF better THEN eval_score ELSE Top.best_eval
           best_move == IF better THEN Top.moves[Top.i] ELSE Top.best_move
           a2 == new_alpha(Top.maximizing_player, Top.alpha, eval_score)
           b2 == new_beta(Top.maximizing_player, Top.beta, eval_score)
       IN  IF cutoff(a2, b2)
           THEN /\ pruning_count' = pruning_count + 1
                /\ Return(best_eval, best_move)
           ELSE /\ pruning_count' = pruning_count
                /\ frames' = [frames EXCEPT ![Len(frames)] =
                                [@ EXCEPT !.alpha = a2, !.beta = b2,
                                          !.best_eval = best_eval,
                                          !.best_move = best_move,
                                          !.explored = Append(@, eval_score),
                                          !.i = @ + 1, !.pc = "loop"]]
                /\ UNCHANGED <<ret, call>>
    /\ UNCHANGED <<game, depth, nodes_evaluated, entry, position, ui_vars>>

\* lines 73 and 94: the moves are exhausted
minimax_return ==
    /\ frames # <<>>
    /\ Top.pc = "loop"
    /\ Top.i > Len(Top.moves)
    /\ Return(Top.best_eval, Top.best_move)
    /\ UNCHANGED <<game, board, depth, nodes_evaluated, pruning_count,
                   entry, position, ui_vars>>

NextSteps ==
    \/ minimax_begin
    \/ minimax_leaf
    \/ minimax_expand
    \/ minimax_descend
    \/ minimax_resume
    \/ minimax_return

SpecSteps == InitSteps /\ [][NextSteps]_vars

\* the interpreter runs the one thread of the program until it returns
SpecStepsFair == SpecSteps /\ WF_vars(NextSteps)

(***************************************************************************)
(* The move orderer step by step: get_ordered_moves lists the legal moves, *)
(* computes the key of each in turn (move_priority applies the move, asks  *)
(* is_check and undoes the move) and sorts the list by the keys.  The one  *)
(* frame holds the list, the index of the move being keyed, the keys so    *)
(* far and the priority being summed; pc is "key" between two moves and    *)
(* "pushed" while the move is applied.                                     *)
(***************************************************************************)
\* the place of the k-th element after a stable descending sort by keys
KeyPlace_reversed_ties(keys, k) ==
    1 + Cardinality({j \in 1..Len(keys) :
            keys[j] > keys[k] \/ (keys[j] = keys[k] /\ j > k)})

KeyPlace(keys, k) ==
    1 + Cardinality({j \in 1..Len(keys) :
            keys[j] > keys[k] \/ (keys[j] = keys[k] /\ j < k)})

\* moves.sort(key=move_priority, reverse=True)
sort_reverse(moves, keys) ==
    [p \in 1..Len(moves) |->
        moves[CHOOSE k \in 1..Len(moves) : KeyPlace(keys, k) = p]]

InitOrder ==
    /\ game \in 1..Len(Games)
    /\ board \in Positions(game)
    /\ depth = DEFAULT_DEPTH
    /\ nodes_evaluated = 0
    /\ pruning_count = 0
    /\ ret = <<>>
    /\ call = [op |-> "pending", arg |-> 0, maximizing |-> FALSE]
    /\ frames = <<>>
    /\ entry = board
    /\ position = NoPosition
    /\ UIAtStart

\* line 20: moves = list(board.legal_moves)
ordering_begin ==
    /\ call.op = "pending"
    /\ frames' = << [moves |-> legal_moves(game, board), i |-> 1, keys |-> <<>>,
                     priority |-> 0, pc |-> "key"] >>
    /\ call' = [call EXCEPT !.op = "running"]
    /\ UNCHANGED <<game, board, depth, nodes_evaluated, pruning_count, ret,
                   entry, position, ui_vars>>

\* lines 27-41: the terms read off the move itself, then board.push(move)
key_push ==
    /\ frames # <<>>
    /\ Top.pc = "key"
    /\ Top.i <= Len(Top.moves)
    /\ board' = push(board, Top.moves[Top.i])
    /\ frames' = [frames EXCEPT ![1] =
                    [@ EXCEPT !.priority = Node(game, push(board, Top.moves[Top.i])).bonus,
                              !.pc = "pushed"]]
    /\ UNCHANGED <<game, depth, nodes_evaluated, pruning_count, ret, call,
                   entry, position, ui_vars>>

\* lines 42-56: is_check on the position after the move, board.pop(), return
key_pop ==
    /\ frames # <<>>
    /\ Top.pc = "pushed"
    /\ board' = pop(board)
    /\ frames' = [frames EXCEPT ![1] =
                    [@ EXCEPT !.keys = Append(@, Top.priority +
                                    (IF is_check(game, board) THEN CHECK_BONUS ELSE 0)),
                              !.priority = 0,
                              !.i = @ + 1,
                              !.pc = "key"]]
    /\ UNCHANGED <<game, depth, nodes_evaluated, pruning_count, ret, call,
                   entry, position, ui_vars>>

\* lines 59-61: every key is known; sort and return
ordering_return ==
    /\ frames # <<>>
    /\ Top.pc = "key"
    /\ Top.i > Len(Top.moves)
    /\ ret' = << sort_reverse(Top.moves, Top.keys) >>
    /\ frames' = <<>>
    /\ call' = [call EXCEPT !.op = "get_ordered_moves"]
    /\ UNCHANGED <<game, board, depth, nodes_evaluated, pruning_count,
                   entry, position, ui_vars>>

NextOrder ==
    \/ ordering_begin
    \/ key_push
    \/ key_pop
    \/ ordering_return

SpecOrder == InitOrder /\ [][NextOrder]_vars

(***************************************************************************)
(* move_priority as a function of the move: what the code reads of a legal *)
(* move and of the board around it.  at_from and at_to are the piece types *)
(* board.piece_at gives for the two squares ("NONE" for an empty square);  *)
(* en_passant, gives_check are the Rules Engine's answers; promotion,      *)
(* to_file, to_rank are fields of the move.                                *)
(***************************************************************************)
PieceTypes == {"PAWN", "KNIGHT", "BISHOP", "ROOK", "QUEEN", "KING"}

\* the legal moves of chess, as far as move_priority can tell them apart: a
\* king is never captured, a pawn promotes exactly on the last rank, and an
\* en passant capture is a pawn landing on an empty square of rank 3 or 6
LegalMoveKinds ==
    {m \in [at_from : PieceTypes,
            at_to : (PieceTypes \ {"KING"}) \cup {"NONE"},
            en_passant : BOOLEAN,
            gives_check : BOOLEAN,
            promotion : {"NONE", "KNIGHT", "BISHOP", "ROOK", "QUEEN"},
            to_file : 0..7,
            to_rank : 0..7] :
        /\ m.en_passant => /\ m.at_from = "PAWN"
                           /\ m.at_to = "NONE"
                           /\ m.to_rank \in {2, 5}
        /\ (m.promotion # "NONE") <=> (m.at_from = "PAWN" /\ m.to_rank \in {0, 7})
        /\ m.at_to = "PAWN" => m.to_rank \in 1..6}

\* chess.Board.is_capture: an enemy piece on the destination, or en passant
is_capture(m) == m.at_to # "NONE" \/ m.en_passant

\* utils.py lines 64-82
get_piece_value(piece_type) ==
    CASE piece_type = "PAWN" -> 1
      [] piece_type = "KNIGHT" -> 3
      [] piece_type = "BISHOP" -> 3
      [] piece_type = "ROOK" -> 5
      [] piece_type = "QUEEN" -> 9
      [] piece_type = "KING" -> 100
      [] OTHER -> 0

\* utils.py lines 27-56
priority(m) ==
    (IF is_capture(m) /\ m.at_to # "NONE" /\ m.at_from # "NONE"
        THEN 10 * get_piece_value(m.at_to) - get_piece_value(m.at_from)
        ELSE 0)
    + (IF m.gives_check THEN CHECK_BONUS ELSE 0)
    + (IF m.promotion # "NONE" THEN PROMOTION_BONUS ELSE 0)
    + (IF 2 <= m.to_file /\ m.to_file <= 5 /\ 2 <= m.to_rank /\ m.to_rank <= 5
        THEN CENTER_BONUS ELSE 0)

InitPriority ==
    /\ game = 1
    /\ board = <<>>
    /\ depth = DEFAULT_DEPTH
    /\ nodes_evaluated = 0
    /\ pruning_count = 0
    /\ ret = <<>>
    /\ call \in {[op |-> "pending", arg |-> m, maximizing |-> FALSE] :
                    m \in LegalMoveKinds}
    /\ frames = <<>>
    /\ entry = <<>>
    /\ position = NoPosition
    /\ UIAtStart

move_priority_call ==
    /\ call.op = "pending"
    /\ ret' = << priority(call.arg) >>
    /\ call' = [call EXCEPT !.op = "move_priority"]
    /\ UNCHANGED <<game, board, depth, nodes_evaluated, pruning_count,
                   frames, entry, position, ui_vars>>

NextPriority == move_priority_call

SpecPriority == InitPriority /\ [][NextPriority]_vars

(***************************************************************************)
(* evaluation.py on pieces.  A position is the pieces on the board         *)
(* (records of square 0..63 with a1 = 0, piece_type and color), the side   *)
(* to move, and the Rules Engine's answers about it: status is "checkmate",*)
(* "stalemate", "insufficient" or "none", and moves_white, moves_black are *)
(* len(list(board.legal_moves)) with board.turn set to white and to black. *)
(* Scores are kept times ten, so that 0.1 x positional is an integer; the  *)
(* table entries are multiples of 5 and the floating-point sum is exact.   *)
(***************************************************************************)
\* evaluation.py lines 10-17
PIECE_VALUES ==
    [piece_type \in PieceTypes |->
        CASE piece_type = "PAWN" -> 100
          [] piece_type = "KNIGHT" -> 320
          [] piece_type = "BISHOP" -> 330
          [] piece_type = "ROOK" -> 500
          [] piece_type = "QUEEN" -> 900
          [] piece_type = "KING" -> 20000]

\* evaluation.py lines 20-95: the tables, entry square + 1 for square 0..63
PAWN_TABLE ==
    << 0, 0, 0, 0, 0, 0, 0, 0,
       50, 50, 50, 50, 50, 50, 50, 50,
       10, 10, 20, 30, 30, 20, 10, 10,
       5, 5, 10, 25, 25, 10, 5, 5,
       0, 0, 0, 20, 20, 0, 0, 0,
       5, 0 - 5, 0 - 10, 0, 0, 0 - 10, 0 - 5, 5,
       5, 10, 10, 0 - 20, 0 - 20, 10, 10, 5,
       0, 0, 0, 0, 0, 0, 0, 0 >>

KNIGHT_TABLE ==
    << 0 - 50, 0 - 40, 0 - 30, 0 - 30, 0 - 30, 0 - 30, 0 - 40, 0 - 50,
       0 - 40, 0 - 20, 0, 0, 0, 0, 0 - 20, 0 - 40,
       0 - 30, 0, 10, 15, 15, 10, 0, 0 - 30,
       0 - 30, 5, 15, 20, 20, 15, 5, 0 - 30,
       0 - 30, 0, 15, 20, 20, 15, 0, 0 - 30,
       0 - 30, 5, 10, 15, 15, 10, 5, 0 - 30,
       0 - 40, 0 - 20, 0, 5, 5, 0, 0 - 20, 0 - 40,
       0 - 50, 0 - 40, 0 - 30, 0 - 30, 0 - 30, 0 - 30, 0 - 40, 0 - 50 >>

BISHOP_TABLE ==
    << 0 - 20, 0 - 10, 0 - 10, 0 - 10, 0 - 10, 0 - 10, 0 - 10, 0 - 20,
       0 - 10, 0, 0, 0, 0, 0, 0, 0 - 10,
       0 - 10, 0, 5, 10, 10, 5, 0, 0 - 10,
       0 - 10, 5, 5, 10, 10, 5, 5, 0 - 10,
       0 - 10, 0, 10, 10, 10, 10, 0, 0 - 10,
       0 - 10, 10, 10, 10, 10, 10, 10, 0 - 10,
       0 - 10, 5, 0, 0, 0, 0, 5, 0 - 10,
       0 - 20, 0 - 10, 0 - 10, 0 - 10, 0 - 10, 0 - 10, 0 - 10, 0 - 20 >>

ROOK_TABLE ==
    << 0, 0, 0, 0, 0, 0, 0, 0,
       5, 10, 10, 10, 10, 10, 10, 5,
       0 - 5, 0, 0, 0, 0, 0, 0, 0 - 5,
       0 - 5, 0, 0, 0, 0, 0, 0, 0 - 5,
       0 - 5, 0, 0, 0, 0, 0, 0, 0 - 5,
       0 - 5, 0, 0, 0, 0, 0, 0, 0 - 5,
       0 - 5, 0, 0, 0, 0, 0, 0, 0 - 5,
       0, 0, 0, 5, 5, 0, 0, 0 >>

QUEEN_TABLE ==
    << 0 - 20, 0 - 10, 0 - 10, 0 - 5, 0 - 5, 0 - 10, 0 - 10, 0 - 20,
       0 - 10, 0, 0, 0, 0, 0, 0, 0 - 10,
       0 - 10, 0, 5, 5, 5, 5, 0, 0 - 10,
       0 - 5, 0, 5, 5, 5, 5, 0, 0 - 5,
       0, 0, 5, 5, 5, 5, 0, 0 - 5,
       0 - 10, 5, 5, 5, 5, 5, 0, 0 - 10,
       0 - 10, 0, 5, 0, 0, 0, 0, 0 - 10,
       0 - 20, 0 - 10, 0 - 10, 0 - 5, 0 - 5, 0 - 10, 0 - 10, 0 - 20 >>

KING_MIDDLE_GAME_TABLE ==
    << 0 - 30, 0 - 40, 0 - 40, 0 - 50, 0 - 50, 0 - 40, 0 - 40, 0 - 30,
       0 - 30, 0 - 40, 0 - 40, 0 - 50, 0 - 50, 0 - 40, 0 - 40, 0 - 30,
       0 - 30, 0 - 40, 0 - 40, 0 - 50, 0 - 50, 0 - 40, 0 - 40, 0 - 30,
       0 - 30, 0 - 40, 0 - 40, 0 - 50, 0 - 50, 0 - 40, 0 - 40, 0 - 30,
       0 - 20, 0 - 30, 0 - 30, 0 - 40, 0 - 40, 0 - 30, 0 - 30, 0 - 20,
       0 - 10, 0 - 20, 0 - 20, 0 - 20, 0 - 20, 0 - 20, 0 - 20, 0 - 10,
       20, 20, 0, 0, 0, 0, 20, 20,
       20, 30, 10, 0, 0, 10, 30, 20 >>

KING_END_GAME_TABLE ==
    << 0 - 50, 0 - 40, 0 - 30, 0 - 20, 0 - 20, 0 - 30, 0 - 40, 0 - 50,
       0 - 30, 0 - 20, 0 - 10, 0, 0, 0 - 10, 0 - 20, 0 - 30,
       0 - 30, 0 - 10, 20, 30, 30, 20, 0 - 10, 0 - 30,
       0 - 30, 0 - 10, 30, 40, 40, 30, 0 - 10, 0 - 30,
       0 - 30, 0 - 10, 30, 40, 40, 30, 0 - 10, 0 - 30,
       0 - 30, 0 - 10, 20, 30, 30, 20, 0 - 10, 0 - 30,
       0 - 30, 0 - 30, 0, 0, 0, 0, 0 - 30, 0 - 30,
       0 - 50, 0 - 30, 0 - 30, 0 - 30, 0 - 30, 0 - 30, 0 - 30, 0 - 50 >>

\* chess.square_mirror: the same file on the vertically opposite rank
square_mirror_none(square) == square

square_mirror(square) == (7 - (square \div 8)) * 8 + (square % 8)

\* lines 102-136
get_piece_square_value(piece, endgame) ==
    LET square == IF piece.color = BLACK THEN square_mirror(piece.square)
                  ELSE piece.square
    IN  CASE piece.piece_type = "PAWN" -> PAWN_TABLE[square + 1]
          [] piece.piece_type = "KNIGHT" -> KNIGHT_TABLE[square + 1]
          [] piece.piece_type = "BISHOP" -> BISHOP_TABLE[square + 1]
          [] piece.piece_type = "ROOK" -> ROOK_TABLE[square + 1]
          [] piece.piece_type = "QUEEN" -> QUEEN_TABLE[square + 1]
          [] piece.piece_type = "KING" ->
                IF endgame THEN KING_END_GAME_TABLE[square + 1]
                ELSE KING_MIDDLE_GAME_TABLE[square + 1]
          [] OTHER -> 0

\* lines 139-156: the material of one color, piece by piece
RECURSIVE count_material(_, _, _)
count_material(pieces, color, k) ==
    IF k > Len(pieces) THEN 0
    ELSE (IF pieces[k].color = color THEN PIECE_VALUES[pieces[k].piece_type] ELSE 0)
         + count_material(pieces, color, k + 1)

\* len(board.pieces(piece_type, color))
NumPieces(pieces, piece_type, color) ==
    Cardinality({k \in 1..Len(pieces) :
        pieces[k].piece_type = piece_type /\ pieces[k].color = color})

\* lines 159-177
is_endgame_any_queens(pieces) ==
    LET queens == NumPieces(pieces, "QUEEN", WHITE) + NumPieces(pieces, "QUEEN", BLACK)
        minors == NumPieces(pieces, "KNIGHT", WHITE) + NumPieces(pieces, "BISHOP", WHITE)
                + NumPieces(pieces, "KNIGHT", BLACK) + NumPieces(pieces, "BISHOP", BLACK)
    IN  queens = 0 \/ minors <= 2

is_endgame(pieces) ==
    LET queens == NumPieces(pieces, "QUEEN", WHITE) + NumPieces(pieces, "QUEEN", BLACK)
        minors == NumPieces(pieces, "KNIGHT", WHITE) + NumPieces(pieces, "BISHOP", WHITE)
                + NumPieces(pieces, "KNIGHT", BLACK) + NumPieces(pieces, "BISHOP", BLACK)
    IN  queens = 0 \/ (queens = 2 /\ minors <= 2)

\* lines 205-215: white's table values are added, black's subtracted
RECURSIVE positional_score(_, _, _)
positional_score(pieces, endgame, k) ==
    IF k > Len(pieces) THEN 0
    ELSE (IF pieces[k].color = WHITE
             THEN get_piece_square_value(pieces[k], endgame)
             ELSE 0 - get_piece_square_value(pieces[k], endgame))
         + positional_score(pieces, endgame, k + 1)

\* len(list(board.legal_moves)) with board.turn = color
legal_move_count(p, color) == IF color = WHITE THEN p.moves_white ELSE p.moves_black

\* lines 223 and 228: the turn written back at the end of each branch
turn_left_flipped(white_branch) == IF white_branch THEN BLACK ELSE WHITE

turn_restored(white_branch) == IF white_branch THEN WHITE ELSE BLACK

\* lines 218-228: count, flip board.turn, count, write the turn back
mobility(p) ==
    LET white_branch == (p.turn = WHITE)
        flipped == IF white_branch THEN BLACK ELSE WHITE
        first == legal_move_count(p, p.turn)
        second == legal_move_count(p, flipped)
    IN  [score |-> IF white_branch THEN first - second ELSE (0 - first) + second,
         turn |-> turn_restored(white_branch)]

\* lines 180-233: ten times the returned score, and board.turn afterwards
evaluate_pieces(p) ==
    IF p.status = "checkmate"
    THEN [score10 |-> IF p.turn = WHITE THEN 0 - 10 * CHECKMATE_SCORE
                      ELSE 10 * CHECKMATE_SCORE,
          turn |-> p.turn]
    ELSE IF p.status = "stalemate" \/ p.status = "insufficient"
    THEN [score10 |-> 10 * DRAW_SCORE, turn |-> p.turn]
    ELSE LET material_score == count_material(p.pieces, WHITE, 1)
                               - count_material(p.pieces, BLACK, 1)
             positional == positional_score(p.pieces, is_endgame(p.pieces), 1)
             mob == mobility(p)
         IN  [score10 |-> 10 * material_score + positional + 20 * mob.score,
              turn |-> mob.turn]

\* The positions drawn: the two kings and up to MaxExtra more pieces on a
\* few squares of the board, listed by ascending square as piece_at finds
\* them; no pawn stands on the first or last rank.
WhiteKingSquares == {4, 27}
BlackKingSquares == {60, 44}
ExtraSquares == {18, 35, 52}

ExtraPieces ==
    [square : ExtraSquares, piece_type : PieceTypes \ {"KING"}, color : BOOLEAN]

Extras ==
    {e \in UNION {[1..n -> ExtraPieces] : n \in 0..MaxExtra} :
        \A k \in 1..(Len(e) - 1) : e[k].square < e[k + 1].square}

RECURSIVE SortedBySquare(_)
SortedBySquare(S) ==
    IF S = {} THEN <<>>
    ELSE LET lowest == CHOOSE x \in S : \A y \in S : x.square <= y.square
         IN  << lowest >> \o SortedBySquare(S \ {lowest})

PieceLists ==
    {SortedBySquare({[square |-> wk, piece_type |-> "KING", color |-> WHITE],
                     [square |-> bk, piece_type |-> "KING", color |-> BLACK]}
                    \cup {e[k] : k \in 1..Len(e)}) :
        wk \in WhiteKingSquares, bk \in BlackKingSquares, e \in Extras}

\* what the Rules Engine can answer about such pieces: no legal move for the
\* side to move is checkmate or stalemate, bare kings are insufficient
\* material, and a pawn, rook or queen is always sufficient
EvalPositions ==
    {p \in [pieces : PieceLists, turn : BOOLEAN,
            status : {"none", "checkmate", "stalemate", "insufficient"},
            moves_white : 0..MaxMobility, moves_black : 0..MaxMobility] :
        /\ (p.status \in {"checkmate", "stalemate"})
              <=> (legal_move_count(p, p.turn) = 0)
        /\ Len(p.pieces) = 2 => p.status # "none"
        /\ p.status = "insufficient" =>
              \A k \in 1..Len(p.pieces) :
                  p.pieces[k].piece_type \in {"KING", "KNIGHT", "BISHOP"}}

InitEval ==
    /\ game = 1
    /\ board = <<>>
    /\ depth = DEFAULT_DEPTH
    /\ nodes_evaluated = 0
    /\ pruning_count = 0
    /\ ret = <<>>
    /\ call = [op |-> "pending", arg |-> 0, maximizing |-> FALSE]
    /\ frames = <<>>
    /\ entry = <<>>
    /\ position \in EvalPositions
    /\ UIAtStart

evaluate_board_call ==
    /\ call.op = "pending"
    /\ ret' = << evaluate_pieces(position).score10 >>
    /\ position' = [position EXCEPT !.turn = evaluate_pieces(position).turn]
    /\ call' = [call EXCEPT !.op = "evaluate_board"]
    /\ UNCHANGED <<game, board, depth, nodes_evaluated, pruning_count,
                   frames, entry, ui_vars>>

NextEval == evaluate_board_call

SpecEval == InitEval /\ [][NextEval]_vars

(***************************************************************************)
(* is_endgame on piece counts: the two kings and, for each color, up to    *)
(* MaxCount queens, knights and bishops; call.arg holds the counts drawn   *)
(* and position.pieces the pieces, by ascending square.  The step is lines *)
(* 206-211 of evaluate_board: endgame = is_endgame(board), then the        *)
(* piece-square values of the two kings with that flag.                    *)
(***************************************************************************)
PieceGroup(piece_type, color, n, first_square) ==
    [k \in 1..n |-> [square |-> first_square + k - 1,
                     piece_type |-> piece_type, color |-> color]]

WhiteKing == [square |-> 4, piece_type |-> "KING", color |-> WHITE]
BlackKing == [square |-> 60, piece_type |-> "KING", color |-> BLACK]

CountedPieces(c) ==
    << WhiteKing >>
    \o PieceGroup("QUEEN", WHITE, c.wq, 8)
    \o PieceGroup("QUEEN", BLACK, c.bq, 8 + c.wq)
    \o PieceGroup("KNIGHT", WHITE, c.wn, 8 + c.wq + c.bq)
    \o PieceGroup("KNIGHT", BLACK, c.bn, 8 + c.wq + c.bq + c.wn)
    \o PieceGroup("BISHOP", WHITE, c.wb, 8 + c.wq + c.bq + c.wn + c.bn)
    \o PieceGroup("BISHOP", BLACK, c.bb, 8 + c.wq + c.bq + c.wn + c.bn + c.wb)
    \o << BlackKing >>

PieceCounts ==
    [wq : 0..MaxCount, bq : 0..MaxCount, wn : 0..MaxCount, bn : 0..MaxCount,
     wb : 0..MaxCount, bb : 0..MaxCount]

InitEndgame ==
    /\ game = 1
    /\ board = <<>>
    /\ depth = DEFAULT_DEPTH
    /\ nodes_evaluated = 0
    /\ pruning_count = 0
    /\ ret = <<>>
    /\ call \in {[op |-> "pending", arg |-> c, maximizing |-> FALSE] : c \in PieceCounts}
    /\ frames = <<>>
    /\ entry = <<>>
    /\ position = [pieces |-> CountedPieces(call.arg), turn |-> WHITE]
    /\ UIAtStart

is_endgame_call ==
    /\ call.op = "pending"
    /\ LET endgame == is_endgame(position.pieces)
       IN  ret' = << endgame,
                     get_piece_square_value(WhiteKing, endgame),
                     get_piece_square_value(BlackKing, endgame) >>
    /\ call' = [call EXCEPT !.op = "is_endgame"]
    /\ UNCHANGED <<game, board, depth, nodes_evaluated, pruning_count,
                   frames, entry, position, ui_vars>>

NextEndgame == is_endgame_call

SpecEndgame == InitEndgame /\ [][NextEndgame]_vars

(***************************************************************************)
(* The search step by step from any window: an invocation of minimax as    *)
(* the recursion makes it, with bounds alpha < beta among the scores of    *)
(* the trees and the two infinities.  call keeps the window the invocation *)
(* was entered with.                                                       *)
(***************************************************************************)
WindowBounds == {0 - inf, 0 - 1, 0, 1, inf}

InitWindow ==
    /\ game \in 1..StepGames
    /\ board \in Positions(game)
    /\ depth = DEFAULT_DEPTH
    /\ nodes_evaluated = 0
    /\ pruning_count = 0
    /\ ret = <<>>
    /\ call \in {c \in [op : {"running"}, arg : 0..MaxDepth, maximizing : BOOLEAN,
                        alpha : WindowBounds, beta : WindowBounds] :
                    c.alpha < c.beta}
    /\ frames = << NewFrame(call.arg, call.alpha, call.beta, call.maximizing) >>
    /\ entry = board
    /\ position = NoPosition
    /\ UIAtStart

NextWindow ==
    \/ minimax_leaf
    \/ minimax_expand
    \/ minimax_descend
    \/ minimax_resume
    \/ minimax_return

SpecWindow == InitWindow /\ [][NextWindow]_vars

(***************************************************************************)
(* gui_fixed.py: the desktop GUI.  Everything runs on the one thread of    *)
(* the Tk event loop: a user event or a callback scheduled with            *)
(* master.after runs to its end before the next one starts.  timers lists  *)
(* the scheduled callbacks in the order they were scheduled, each with its *)
(* delay in milliseconds; the user may act at any moment, so a callback    *)
(* can fire unless one scheduled before it with no longer a delay is still *)
(* pending.  A game is a tree with white to move first, as chess.Board()   *)
(* is; the squares of a click are not modelled, a click either selects a   *)
(* piece or names a destination that completes a legal move or does not.   *)
(***************************************************************************)
GuiGames == {g \in 1..Len(Games) : Games[g].turn = WHITE /\ g <= GuiTrees}

\* master.after(delay, callback)
after(pending, delay, callback) ==
    Append(pending, [callback |-> callback, delay |-> delay])

\* the pending callbacks without the k-th
Fired(k) == SubSeq(timers, 1, k - 1) \o SubSeq(timers, k + 1, Len(timers))

CanFire(k) == \A j \in 1..(k - 1) : timers[j].delay > timers[k].delay

InitGui ==
    /\ game \in GuiGames
    /\ board = <<>>
    /\ depth = DEFAULT_DEPTH
    /\ nodes_evaluated = 0
    /\ pruning_count = 0
    /\ ret = <<>>
    /\ call = [op |-> "__init__", arg |-> depth, maximizing |-> FALSE]
    /\ frames = <<>>
    /\ entry = <<>>
    /\ position = NoPosition
    /\ UIAtStart

\* lines 197-201: clicks are ignored in AI-vs-AI mode, when the game is over,
\* and while the AI is to move
ClickAccepted ==
    /\ ~(game_mode = "ai_vs_ai" \/ is_game_over(game, board))
    /\ ~(turn(game, board) # human_color /\ game_mode = "human_vs_ai")

\* lines 203-214: the first click selects a piece of the side to move
on_square_click_select ==
    /\ ClickAccepted
    /\ ~selected_square
    /\ selected_square' = TRUE
    /\ call' = [op |-> "on_square_click", arg |-> None, maximizing |-> FALSE]
    /\ UNCHANGED <<game, board, depth, nodes_evaluated, pruning_count, ret,
                   frames, entry, position, human_color, game_mode, timers,
                   move_history, threads, current_difficulty>>

\* lines 215-239: the second click completes a legal move (make_move), and
\* in human-vs-AI mode schedules the AI's reply unless the game is over
on_square_click_move(move) ==
    /\ ClickAccepted
    /\ selected_square
    /\ move \in 1..Len(legal_moves(game, board))
    /\ board' = push(board, move)
    /\ timers' = IF game_mode = "human_vs_ai" /\ ~is_game_over(game, push(board, move))
                 THEN after(timers, 100, "make_ai_move")
                 ELSE timers
    /\ Len(timers') <= MaxTimers
    /\ selected_square' = FALSE
    /\ call' = [op |-> "on_square_click", arg |-> move, maximizing |-> FALSE]
    /\ UNCHANGED <<game, depth, nodes_evaluated, pruning_count, ret,
                   frames, entry, position, human_color, game_mode,
                   move_history, threads, current_difficulty>>

\* lines 215-239: the second click is not a legal move: only deselect
on_square_click_deselect ==
    /\ ClickAccepted
    /\ selected_square
    /\ selected_square' = FALSE
    /\ call' = [op |-> "on_square_click", arg |-> None, maximizing |-> FALSE]
    /\ UNCHANGED <<game, board, depth, nodes_evaluated, pruning_count, ret,
                   frames, entry, position, human_color, game_mode, timers,
                   move_history, threads, current_difficulty>>

\* lines 292-307: the engine's move for the side to move, pushed when there
\* is one
make_ai_move ==
    LET r == minimax(game, board, depth, root_window.alpha, root_window.beta,
                     turn(game, board) = WHITE)
    IN  /\ nodes_evaluated' = reset_statistics(nodes_evaluated) + r.nodes
        /\ pruning_count' = reset_statistics(pruning_count) + r.prunes
        /\ ret' = << r.move >>
        /\ board' = IF r.move # None THEN push(r.board, r.move) ELSE r.board

\* a scheduled make_ai_move fires
timer_make_ai_move(k) ==
    /\ k \in 1..Len(timers)
    /\ timers[k].callback = "make_ai_move"
    /\ CanFire(k)
    /\ make_ai_move
    /\ timers' = Fired(k)
    /\ call' = [op |-> "make_ai_move", arg |-> depth, maximizing |-> FALSE]
    /\ UNCHANGED <<game, depth, frames, entry, position, human_color, game_mode,
                   selected_square, move_history, threads, current_difficulty>>

\* lines 391-400: a scheduled ai_vs_ai_loop fires
timer_ai_vs_ai_loop(k) ==
    /\ k \in 1..Len(timers)
    /\ timers[k].callback = "ai_vs_ai_loop"
    /\ CanFire(k)
    /\ IF game_mode # "ai_vs_ai" \/ is_game_over(game, board)
       THEN /\ timers' = Fired(k)
            /\ UNCHANGED <<board, nodes_evaluated, pruning_count, ret>>
       ELSE /\ make_ai_move
            /\ timers' = IF ~is_game_over(game, board')
                         THEN after(Fired(k), 2000, "ai_vs_ai_loop")
                         ELSE Fired(k)
    /\ call' = [op |-> "ai_vs_ai_loop", arg |-> depth, maximizing |-> FALSE]
    /\ UNCHANGED <<game, depth, frames, entry, position, human_color, game_mode,
                   selected_square, move_history, threads, current_difficulty>>

\* lines 309-324 (gui.py lines 120-139 have the same logic): the board after
\* the Undo button
undone(b) ==
    IF Len(b) > 0
    THEN IF game_mode = "human_vs_ai" /\ Len(pop(b)) > 0
            /\ turn(game, pop(b)) = human_color
         THEN pop(pop(b))
         ELSE pop(b)
    ELSE b

undo_move ==
    /\ Len(board) > 0
    /\ board' = undone(board)
    /\ selected_square' = FALSE
    /\ call' = [op |-> "undo_move", arg |-> None, maximizing |-> FALSE]
    /\ UNCHANGED <<game, depth, nodes_evaluated, pruning_count, ret,
                   frames, entry, position, human_color, game_mode, timers,
                   move_history, threads, current_difficulty>>

\* lines 326-333
reset_board ==
    /\ board' = <<>>
    /\ selected_square' = FALSE
    /\ call' = [op |-> "reset_board", arg |-> None, maximizing |-> FALSE]
    /\ UNCHANGED <<game, depth, nodes_evaluated, pruning_count, ret,
                   frames, entry, position, human_color, game_mode, timers,
                   move_history, threads, current_difficulty>>

\* lines 368-381
new_game(color) ==
    /\ human_color' = color
    /\ game_mode' = "human_vs_ai"
    /\ board' = <<>>
    /\ selected_square' = FALSE
    /\ timers' = IF color = BLACK THEN after(timers, 500, "make_ai_move") ELSE timers
    /\ Len(timers') <= MaxTimers
    /\ call' = [op |-> "new_game", arg |-> None, maximizing |-> FALSE]
    /\ UNCHANGED <<game, depth, nodes_evaluated, pruning_count, ret,
                   frames, entry, position, move_history, threads,
                   current_difficulty>>

\* lines 383-389
start_ai_vs_ai ==
    /\ game_mode' = "ai_vs_ai"
    /\ board' = <<>>
    /\ selected_square' = FALSE
    /\ timers' = after(timers, 1000, "ai_vs_ai_loop")
    /\ Len(timers') <= MaxTimers
    /\ call' = [op |-> "start_ai_vs_ai", arg |-> None, maximizing |-> FALSE]
    /\ UNCHANGED <<game, depth, nodes_evaluated, pruning_count, ret,
                   frames, entry, position, human_color, move_history, threads,
                   current_difficulty>>

NextGui ==
    \/ on_square_click_select
    \/ \E move \in 1..MaxMoves : on_square_click_move(move)
    \/ on_square_click_deselect
    \/ \E k \in 1..MaxTimers : timer_make_ai_move(k)
    \/ \E k \in 1..MaxTimers : timer_ai_vs_ai_loop(k)
    \/ undo_move
    \/ reset_board
    \/ \E color \in BOOLEAN : new_game(color)
    \/ start_ai_vs_ai

SpecGui == InitGui /\ [][NextGui]_vars

(***************************************************************************)
(* main.py: the difficulty prompt of the terminal UI.  An input line is a  *)
(* sequence of characters.  One round of the loop of get_difficulty_choice *)
(* strips the line, tests it with Python's `in` against the string         *)
(* "123456" (a substring test) and then converts it with int() and indexes *)
(* the six-entry difficulties list with level - 1.                         *)
(***************************************************************************)
Chars == {"0", "1", "2", "3", "4", "5", "6", "7", "a", " "}

Lines == UNION {[1..n -> Chars] : n \in 0..MaxInput}

\* str.strip()
RECURSIVE strip(_)
strip(s) ==
    IF s = <<>> THEN s
    ELSE IF s[1] = " " THEN strip(Tail(s))
    ELSE IF s[Len(s)] = " " THEN strip(SubSeq(s, 1, Len(s) - 1))
    ELSE s

\* Python's  needle in haystack  for strings
contains(haystack, needle) ==
    \E i \in 0..(Len(haystack) - Len(needle)) :
        SubSeq(haystack, i + 1, i + Len(needle)) = needle

DigitChars == <<"0", "1", "2", "3", "4", "5", "6", "7", "8", "9">>

IsDigit(c) == \E d \in 1..Len(DigitChars) : DigitChars[d] = c

DigitValue(c) == (CHOOSE d \in 1..Len(DigitChars) : DigitChars[d] = c) - 1

RECURSIVE DecimalValue(_)
DecimalValue(s) ==
    IF s = <<>> THEN 0
    ELSE 10 * DecimalValue(SubSeq(s, 1, Len(s) - 1)) + DigitValue(s[Len(s)])

\* int(s) for a stripped line: a value, or ValueError for the empty string
\* and for a line with a character that is not a digit
int(s) ==
    IF s # <<>> /\ \A i \in 1..Len(s) : IsDigit(s[i])
    THEN [ok |-> TRUE, value |-> DecimalValue(s)]
    ELSE [ok |-> FALSE, value |-> 0]

NumDifficulties == 6

\* lines 233-250: what one round of the loop does with the line entered
get_difficulty_choice(entered) ==
    LET choice == strip(entered)
        level == int(choice)
    IN  IF contains(<<"1", "2", "3", "4", "5", "6">>, choice)
        THEN IF ~level.ok
             THEN [outcome |-> "raise", level |-> 0, error |-> "ValueError"]
             ELSE IF level.value - 1 \notin (0 - NumDifficulties)..(NumDifficulties - 1)
             THEN [outcome |-> "raise", level |-> 0, error |-> "IndexError"]
             ELSE [outcome |-> "return", level |-> level.value, error |-> ""]
        ELSE [outcome |-> "prompt again", level |-> 0, error |-> ""]

InitChoice ==
    /\ game = 1
    /\ board = <<>>
    /\ depth = DEFAULT_DEPTH
    /\ nodes_evaluated = 0
    /\ pruning_count = 0
    /\ ret = <<>>
    /\ call = [op |-> "get_difficulty_choice", arg |-> <<>>, maximizing |-> FALSE]
    /\ frames = <<>>
    /\ entry = <<>>
    /\ position = NoPosition
    /\ UIAtStart

\* one round of the loop: the user enters a line
get_difficulty_choice_call(entered) ==
    /\ IF ret = <<>> THEN TRUE ELSE ret[1].outcome = "prompt again"
    /\ call' = [op |-> "get_difficulty_choice", arg |-> entered, maximizing |-> FALSE]
    /\ ret' = << get_difficulty_choice(entered) >>
    /\ UNCHANGED <<game, board, depth, nodes_evaluated, pruning_count,
                   frames, entry, position, ui_vars>>

NextChoice == \E entered \in Lines : get_difficulty_choice_call(entered)

SpecChoice == InitChoice /\ [][NextChoice]_vars

(***************************************************************************)
(* main.py: the main menu of the terminal UI.  One action is one menu      *)
(* choice handled to its end.  Each difficulty prompt is given the line    *)
(* that ends its loop (the rounds that prompt again change nothing): one   *)
(* of the six levels, the empty line or "12"; an exception nothing catches *)
(* ends the process.  depth is the depth of the engine of the game manager *)
(* that play_game creates, ret the depths of the engines of the game just  *)
(* started.                                                                *)
(***************************************************************************)
FinalLines ==
    {<<>>, <<"1">>, <<"2">>, <<"3">>, <<"4">>, <<"5">>, <<"6">>, <<"1", "2">>}

Running == call.op \notin {"exit", "uncaught exception"}

Terminated == [op |-> "uncaught exception", arg |-> None, maximizing |-> FALSE]

InitMenu ==
    /\ game = 1
    /\ board = <<>>
    /\ depth = DEFAULT_DEPTH
    /\ nodes_evaluated = 0
    /\ pruning_count = 0
    /\ ret = <<>>
    /\ call = [op |-> "main_menu", arg |-> None, maximizing |-> FALSE]
    /\ frames = <<>>
    /\ entry = <<>>
    /\ position = NoPosition
    /\ UIAtStart

\* lines 315-339: choices '1' and '2'
play_game(color, entered) ==
    LET difficulty == get_difficulty_choice(entered)
    IN  /\ Running
        /\ IF difficulty.outcome = "return"
           THEN /\ depth' = difficulty.level
                /\ human_color' = color
                /\ ret' = << difficulty.level >>
                /\ call' = [op |-> "play_game", arg |-> difficulty.level,
                            maximizing |-> FALSE]
           ELSE /\ call' = Terminated
                /\ UNCHANGED <<depth, human_color, ret>>
        /\ UNCHANGED <<game, board, nodes_evaluated, pruning_count, frames, entry,
                       position, game_mode, selected_square, timers, move_history,
                       threads, current_difficulty>>

\* lines 342-381: choice '3'; the second prompt is reached when the first
\* returns, and a ValueError of either falls back to depths 3 and 3
ai_vs_ai(entered1, entered2) ==
    LET depth1 == get_difficulty_choice(entered1)
        depth2 == get_difficulty_choice(entered2)
        raised == IF depth1.outcome = "raise" THEN depth1.error
                  ELSE IF depth2.outcome = "raise" THEN depth2.error
                  ELSE ""
    IN  /\ Running
        /\ IF raised = ""
           THEN /\ ret' = << depth1.level, depth2.level >>
                /\ call' = [op |-> "ai_vs_ai", arg |-> None, maximizing |-> FALSE]
           ELSE IF raised = "ValueError"
           THEN /\ ret' = << DEFAULT_DEPTH, DEFAULT_DEPTH >>
                /\ call' = [op |-> "ai_vs_ai", arg |-> None, maximizing |-> FALSE]
           ELSE /\ call' = Terminated
                /\ UNCHANGED ret
        /\ UNCHANGED <<game, board, depth, nodes_evaluated, pruning_count, frames,
                       entry, position, ui_vars>>

\* lines 451-472: choice '4'
set_difficulty(entered) ==
    LET new_difficulty == get_difficulty_choice(entered)
    IN  /\ Running
        /\ IF new_difficulty.outcome = "return"
           THEN /\ current_difficulty' = new_difficulty.level
                /\ call' = [op |-> "set_difficulty", arg |-> new_difficulty.level,
                            maximizing |-> FALSE]
           ELSE /\ call' = Terminated
                /\ UNCHANGED current_difficulty
        /\ UNCHANGED <<game, board, depth, nodes_evaluated, pruning_count, ret,
                       frames, entry, position, human_color, game_mode,
                       selected_square, timers, move_history, threads>>

\* lines 295-296: choice '5'
show_instructions ==
    /\ Running
    /\ call' = [op |-> "show_instructions", arg |-> None, maximizing |-> FALSE]
    /\ UNCHANGED <<game, board, depth, nodes_evaluated, pruning_count, ret,
                   frames, entry, position, ui_vars>>

\* lines 297-305: choice '6'
exit_menu ==
    /\ Running
    /\ call' = [op |-> "exit", arg |-> None, maximizing |-> FALSE]
    /\ UNCHANGED <<game, board, depth, nodes_evaluated, pruning_count, ret,
                   frames, entry, position, ui_vars>>

NextMenu ==
    \/ \E color \in BOOLEAN, entered \in FinalLines : play_game(color, entered)
    \/ \E entered1, entered2 \in FinalLines : ai_vs_ai(entered1, entered2)
    \/ \E entered \in FinalLines : set_difficulty(entered)
    \/ show_instructions
    \/ exit_menu

SpecMenu == InitMenu /\ [][NextMenu]_vars

(***************************************************************************)
(* gui.py: the web GUI.  The server runs with threaded=True: each request  *)
(* is handled on a thread of its own, and all handlers use the one board   *)
(* and the one engine of the ChessGUI object, without a lock.  The         *)
(* interpreter may switch threads between any two steps of a handler.  The *)
(* model runs the search of one /api/ai_move request step by step (frames  *)
(* is that thread's call stack, entry the board it started from) and lets  *)
(* every other request run between two of its steps; the other requests    *)
(* run without being interrupted, which is one of the schedules.  threads  *)
(* holds the /api/ai_move request in flight.  When a request writes the    *)
(* board while the search is on it, what the search and the request leave  *)
(* behind depends on the internals of the rules library: the model marks   *)
(* the request "raced" and follows the behaviour no further.               *)
(***************************************************************************)
WebGames == {g \in GuiGames : g <= WebTrees}

InFlight == threads # <<>>

Raced == InFlight /\ threads[1].pc = "raced"

\* a write to the shared board or history by another request
RacingWrite == IF InFlight THEN << [request |-> "ai_move", pc |-> "raced"] >> ELSE threads

InitWeb ==
    /\ game \in WebGames
    /\ board = <<>>
    /\ depth = DEFAULT_DEPTH
    /\ nodes_evaluated = 0
    /\ pruning_count = 0
    /\ ret = <<>>
    /\ call = [op |-> "__init__", arg |-> <<>>, maximizing |-> FALSE]
    /\ frames = <<>>
    /\ entry = <<>>
    /\ position = NoPosition
    /\ UIAtStart

\* lines 38-51: /api/board reads the board
api_board ==
    /\ ~Raced
    /\ call' = [op |-> "get_board", arg |-> board, maximizing |-> FALSE]
    /\ UNCHANGED <<game, board, depth, nodes_evaluated, pruning_count, ret,
                   frames, entry, position, ui_vars>>

\* lines 53-76: /api/move pushes a legal move
api_move(move) ==
    /\ ~Raced
    /\ move \in 1..Len(legal_moves(game, board))
    /\ board' = push(board, move)
    /\ move_history' = Append(move_history, move)
    /\ threads' = RacingWrite
    /\ frames' = <<>>
    /\ call' = [op |-> "make_move", arg |-> << move >>, maximizing |-> FALSE]
    /\ UNCHANGED <<game, depth, nodes_evaluated, pruning_count, ret, entry,
                   position, human_color, game_mode, selected_square, timers,
                   current_difficulty>>

\* lines 78-82 and chess_engine.py lines 107-120: /api/ai_move enters
\* get_best_move, which resets the statistics and calls minimax
api_ai_move_begin ==
    /\ ~InFlight
    /\ nodes_evaluated' = reset_statistics(nodes_evaluated)
    /\ pruning_count' = reset_statistics(pruning_count)
    /\ frames' = << NewFrame(depth, root_window.alpha, root_window.beta,
                             turn(game, board) = WHITE) >>
    /\ entry' = board
    /\ threads' = << [request |-> "ai_move", pc |-> "searching"] >>
    /\ call' = [op |-> "running", arg |-> << depth >>,
                maximizing |-> (turn(game, board) = WHITE)]
    /\ UNCHANGED <<game, board, depth, ret, position, human_color, game_mode,
                   selected_square, timers, move_history, current_difficulty>>

\* lines 83-103: the search has returned; push its move and answer with the
\* engine's statistics as they are now
api_ai_move_end ==
    /\ InFlight
    /\ ~Raced
    /\ frames = <<>>
    /\ LET ai_move == ret[2]
       IN  /\ board' = IF ai_move # None THEN push(board, ai_move) ELSE board
           /\ move_history' = IF ai_move # None THEN Append(move_history, ai_move)
                              ELSE move_history
           /\ call' = [op |-> "get_ai_move",
                       arg |-> IF ai_move # None
                               THEN << nodes_evaluated, pruning_count >>
                               ELSE <<>>,
                       maximizing |-> FALSE]
    /\ threads' = <<>>
    /\ UNCHANGED <<game, depth, nodes_evaluated, pruning_count, ret, frames,
                   entry, position, human_color, game_mode, selected_square,
                   timers, current_difficulty>>

\* lines 108-118: /api/new_game
api_new_game(color, mode) ==
    /\ ~Raced
    /\ human_color' = color
    /\ game_mode' = mode
    /\ board' = <<>>
    /\ move_history' = <<>>
    /\ threads' = RacingWrite
    /\ frames' = <<>>
    /\ call' = [op |-> "new_game", arg |-> <<>>, maximizing |-> FALSE]
    /\ UNCHANGED <<game, depth, nodes_evaluated, pruning_count, ret, entry,
                   position, selected_square, timers, current_difficulty>>

\* lines 120-139: /api/undo
api_undo ==
    /\ ~Raced
    /\ Len(board) > 0
    /\ board' = undone(board)
    /\ move_history' = SubSeq(move_history, 1,
                              max(0, Len(move_history) - (Len(board) - Len(board'))))
    /\ threads' = RacingWrite
    /\ frames' = <<>>
    /\ call' = [op |-> "undo_move", arg |-> <<>>, maximizing |-> FALSE]
    /\ UNCHANGED <<game, depth, nodes_evaluated, pruning_count, ret, entry,
                   position, human_color, game_mode, selected_square, timers,
                   current_difficulty>>

\* lines 141-155: /api/hint runs get_best_move on the shared engine and the
\* shared board
api_hint ==
    /\ ~Raced
    /\ LET r == minimax(game, board, depth, root_window.alpha, root_window.beta,
                        turn(game, board) = WHITE)
       IN  /\ nodes_evaluated' = reset_statistics(nodes_evaluated) + r.nodes
           /\ pruning_count' = reset_statistics(pruning_count) + r.prunes
           /\ call' = [op |-> "get_hint", arg |-> << r.move >>, maximizing |-> FALSE]
    /\ UNCHANGED <<game, board, depth, ret, frames, entry, position, ui_vars>>

\* a step of the search of the request in flight
api_ai_move_step ==
    /\ ~Raced
    /\ \/ minimax_leaf
       \/ minimax_expand
       \/ minimax_descend
       \/ minimax_resume
       \/ minimax_return

NextWeb ==
    \/ api_board
    \/ \E move \in 1..MaxMoves : api_move(move)
    \/ api_ai_move_begin
    \/ api_ai_move_step
    \/ api_ai_move_end
    \/ \E color \in BOOLEAN, mode \in {"human_vs_ai", "ai_vs_ai"} :
            api_new_game(color, mode)
    \/ api_undo
    \/ api_hint

SpecWeb == InitWeb /\ [][NextWeb]_vars

(***************************************************************************)
(* Reference definitions used to state the properties.                     *)
(***************************************************************************)
SetMax(S) == CHOOSE x \in S : \A y \in S : y <= x
SetMin(S) == CHOOSE x \in S : \A y \in S : x <= y

\* plain minimax over the same tree, without a window and without cutoffs
RECURSIVE unpruned(_, _, _, _)
unpruned(g, b, d, maximizing_player) ==
    IF d = 0 \/ is_game_over(g, b) THEN evaluate_board(g, b)
    ELSE LET scores == {unpruned(g, push(b, m), d - 1, ~maximizing_player) :
                            m \in 1..Len(Node(g, b).moves)}
         IN  IF maximizing_player THEN SetMax(scores) ELSE SetMin(scores)

\* the nodes a top-level search of the given depth evaluates
TopLevelNodes(g, b, d, maximizing_player) ==
    minimax(g, b, d, root_window.alpha, root_window.beta, maximizing_player).nodes

\* the legal moves that deliver checkmate at once
MatesInOne(g, b) ==
    {m \in 1..Len(Node(g, b).moves) : is_checkmate(g, push(b, m))}

Searched == call.op = "minimax"

\* the unpruned score of the i-th move of the orderer's output at the root
RootScore(i) ==
    unpruned(game, push(board, get_ordered_moves(game, board)[i]),
             call.arg - 1, ~call.maximizing)

\* black to move, black minimizing, depth >= 1, a mate in one is available
BlackCanMate ==
    /\ Searched
    /\ turn(game, board) = BLACK
    /\ ~call.maximizing
    /\ call.arg >= 1
    /\ MatesInOne(game, board) # {}

(***************************************************************************)
(* C1: the score minimax returns for the full window equals the score of   *)
(* plain minimax without pruning over the same tree, at every depth >= 0.  *)
(***************************************************************************)
C1_PruningKeepsScore ==
    Searched => ret[1] = unpruned(game, board, call.arg, call.maximizing)

C1_Witness ==
    /\ Searched
    /\ call.arg >= 3
    /\ pruning_count >= 2
    /\ ret[1] = unpruned(game, board, call.arg, call.maximizing)

(***************************************************************************)
(* C2: among the root moves whose score equals the best score, the search  *)
(* returns the one that comes first in the orderer's output.               *)
(***************************************************************************)
C2_FirstBestMoveWins ==
    (Searched /\ ret[2] # None) =>
        \E i \in 1..Len(get_ordered_moves(game, board)) :
            /\ ret[2] = get_ordered_moves(game, board)[i]
            /\ RootScore(i) = ret[1]
            /\ \A j \in 1..(i - 1) : RootScore(j) # ret[1]

C2_Witness ==
    /\ Searched
    /\ call.arg >= 2
    /\ \E i, j \in 1..Len(get_ordered_moves(game, board)) :
            /\ i < j
            /\ ret[2] = get_ordered_moves(game, board)[i]
            /\ RootScore(i) = ret[1]
            /\ RootScore(j) = ret[1]

(***************************************************************************)
(* C3 as stated: a top-level search at depth d+1 never evaluates fewer     *)
(* nodes than a top-level search at depth d of the same position.          *)
(***************************************************************************)
C3_NodesNeverDecrease ==
    Searched =>
        TopLevelNodes(game, board, call.arg + 1, call.maximizing) >= nodes_evaluated

(***************************************************************************)
(* C3 amended: the node count does not decrease from depth 0 to 1 and from *)
(* depth 1 to 2 (every root move is searched at both depths).              *)
(***************************************************************************)
C3_NodesNeverDecreaseUpToTwo ==
    (Searched /\ call.arg <= 1) =>
        TopLevelNodes(game, board, call.arg + 1, call.maximizing) >= nodes_evaluated

C3_Witness ==
    /\ Searched
    /\ call.arg = 1
    /\ pruning_count = 0
    /\ TopLevelNodes(game, board, 2, call.maximizing) > nodes_evaluated
    /\ minimax(game, board, 2, root_window.alpha, root_window.beta,
               call.maximizing).prunes > 0

(***************************************************************************)
(* C4: the stored search depth is always an integer in 1..10.              *)
(***************************************************************************)
C4_DepthInRange == depth \in MIN_DEPTH..MAX_DEPTH

(***************************************************************************)
(* C5: set_depth(n) stores 10 when n > 10, 1 when n < 1 and n otherwise,   *)
(* and leaves the search statistics unchanged.                             *)
(***************************************************************************)
C5_SetDepthClamps ==
    [][call'.op = "set_depth" =>
        /\ (call'.arg > 10 => depth' = 10)
        /\ (call'.arg < 1 => depth' = 1)
        /\ (call'.arg \in 1..10 => depth' = call'.arg)
        /\ nodes_evaluated' = nodes_evaluated
        /\ pruning_count' = pruning_count]_vars

C5_Witness ==
    /\ call = [op |-> "set_depth", arg |-> 15, maximizing |-> FALSE]
    /\ depth = 10
    /\ nodes_evaluated > 1
    /\ pruning_count > 0

(***************************************************************************)
(* C6: a search of depth 0 returns (evaluate(p), None), applies no move,   *)
(* visits one node and does not consult the move orderer.                  *)
(***************************************************************************)
C6_DepthZeroEvaluates ==
    [][(call.op = "pending" /\ call.arg = 0 /\ call'.op = "minimax") =>
        /\ ret' = << evaluate_board(game, board), None >>
        /\ board' = board
        /\ nodes_evaluated' = nodes_evaluated + 1
        /\ pruning_count' = pruning_count
        /\ minimax(game, board, call.arg, 0 - inf, inf, call.maximizing).pushes = 0
        /\ minimax(game, board, call.arg, 0 - inf, inf, call.maximizing).orderings = 0]_vars

C6_Witness ==
    /\ Searched
    /\ call.arg = 0
    /\ ~is_game_over(game, board)
    /\ Len(legal_moves(game, board)) >= 2
    /\ ret = << total_score(game, board), None >>
    /\ nodes_evaluated = 1

(***************************************************************************)
(* C7: when the side to move is checkmated, a search of any depth with     *)
(* either flag returns no move and -CHECKMATE_SCORE if white is to move,   *)
(* +CHECKMATE_SCORE if black is to move.                                   *)
(***************************************************************************)
C7_CheckmateSentinel ==
    (Searched /\ is_checkmate(game, board)) =>
        ret = << IF turn(game, board) = WHITE THEN 0 - CHECKMATE_SCORE
                 ELSE CHECKMATE_SCORE, None >>

C7_Witness ==
    /\ Searched
    /\ is_checkmate(game, board)
    /\ turn(game, board) = BLACK
    /\ call.arg >= 2
    /\ ret = << CHECKMATE_SCORE, None >>

(***************************************************************************)
(* C8: get_best_move returns None only at a root where the game is over;   *)
(* at every other root it returns one of the root's legal moves.           *)
(***************************************************************************)
C8_MoveUnlessGameOver ==
    (call.op = "get_best_move" /\ ~is_game_over(game, board)) =>
        ret[1] \in 1..Len(legal_moves(game, board))

(***************************************************************************)
(* C9 as stated: black to move and minimizing, a mate in one available:    *)
(* the search returns -CHECKMATE_SCORE at every depth >= 1.                *)
(***************************************************************************)
C9_MateScore == BlackCanMate => ret[1] = 0 - CHECKMATE_SCORE

(***************************************************************************)
(* C9 amended: the same, for positions in which the game is not already    *)
(* over (a position drawn by the seventy-five-move or the fivefold rule is *)
(* not searched: its static evaluation is returned).                       *)
(***************************************************************************)
C9_MateScoreUnlessGameOver ==
    (BlackCanMate /\ ~is_game_over(game, board)) => ret[1] = 0 - CHECKMATE_SCORE

C9_Witness ==
    /\ BlackCanMate
    /\ ~is_game_over(game, board)
    /\ call.arg >= 2
    /\ Len(legal_moves(game, board)) >= 2
    /\ ret[1] = 0 - CHECKMATE_SCORE

(***************************************************************************)
(* C10 as stated: black to move and minimizing, a mate in one available:   *)
(* the move returned at every depth >= 1 delivers checkmate in one.        *)
(***************************************************************************)
C10_ReturnsMateInOne == BlackCanMate => ret[2] \in MatesInOne(game, board)

(***************************************************************************)
(* C10 amended: when the game is not already over, the move returned is    *)
(* the first move of the orderer's output whose score is -CHECKMATE_SCORE; *)
(* at depth 1 and 2 that move delivers checkmate in one, at depth >= 3 it  *)
(* may be an earlier-ordered move that only forces mate later.             *)
(***************************************************************************)
C10_ReturnsFirstMatingLine ==
    (BlackCanMate /\ ~is_game_over(game, board)) =>
        /\ \E i \in 1..Len(get_ordered_moves(game, board)) :
            /\ ret[2] = get_ordered_moves(game, board)[i]
            /\ RootScore(i) = 0 - CHECKMATE_SCORE
            /\ \A j \in 1..(i - 1) : RootScore(j) # 0 - CHECKMATE_SCORE
        /\ (call.arg <= 2 => ret[2] \in MatesInOne(game, board))

C10_Witness ==
    /\ BlackCanMate
    /\ ~is_game_over(game, board)
    /\ call.arg = 2
    /\ get_ordered_moves(game, board)[1] \notin MatesInOne(game, board)
    /\ ret[2] \in MatesInOne(game, board)


(***************************************************************************)
(* Reference definitions for the step-by-step search.                      *)
(***************************************************************************)
\* the invocations that have applied a move and not yet undone it
Waiting == {k \in 1..Len(frames) : frames[k].pc = "wait"}

\* the search moves applied on top of the position at call entry
Applied == SubSeq(board, Len(entry) + 1, Len(board))

Returned == call.op = "minimax"

(***************************************************************************)
(* C11: during a search the moves applied on top of the position at call   *)
(* entry are exactly the moves of the invocations waiting for their        *)
(* recursive call, outermost first (so applies and undos nest with the     *)
(* call stack and a frame returns only with its own move undone), they are *)
(* never more than the depth d, and when the top-level search has returned *)
(* the move stack is the one at call entry.                                *)
(***************************************************************************)
C11_ApplyUndoNested ==
    /\ SubSeq(board, 1, Len(entry)) = entry
    /\ Waiting = 1..Cardinality(Waiting)
    /\ Cardinality(Waiting) >= Len(frames) - 1
    /\ Applied = [k \in 1..Cardinality(Waiting) |-> frames[k].moves[frames[k].i]]
    /\ (call.op = "running" => Len(Applied) <= call.arg)
    /\ (Returned => board = entry)

\* a search of depth >= 2 has gone below the root's children and returned
C11_Witness ==
    /\ Returned
    /\ call.arg >= 2
    /\ nodes_evaluated > 1 + Len(legal_moves(game, entry))
    /\ board = entry


\* The positions on which one call of minimax invokes minimax (itself
\* included) and the positions at which it cuts off, found by walking the
\* ordered moves of each position until the window closes.
RECURSIVE Walk(_, _, _, _, _, _)
RECURSIVE WalkFrom(_, _, _, _, _, _, _, _)

WalkFrom(g, b, d, alpha, beta, maximizing_player, moves, i) ==
    IF i > Len(moves) THEN [invoked |-> {}, cut |-> {}]
    ELSE LET child == push(b, moves[i])
             below == Walk(g, child, d - 1, alpha, beta, ~maximizing_player)
             s == minimax(g, child, d - 1, alpha, beta, ~maximizing_player).score
             a2 == IF maximizing_player /\ s > alpha THEN s ELSE alpha
             b2 == IF ~maximizing_player /\ s < beta THEN s ELSE beta
             rest == IF b2 <= a2 THEN [invoked |-> {}, cut |-> {b}]
                     ELSE WalkFrom(g, b, d, a2, b2, maximizing_player, moves, i + 1)
         IN  [invoked |-> below.invoked \cup rest.invoked,
              cut |-> below.cut \cup rest.cut]

Walk(g, b, d, alpha, beta, maximizing_player) ==
    IF d = 0 \/ is_game_over(g, b) THEN [invoked |-> {b}, cut |-> {}]
    ELSE LET below == WalkFrom(g, b, d, alpha, beta, maximizing_player,
                               get_ordered_moves(g, b), 1)
         IN  [invoked |-> {b} \cup below.invoked, cut |-> below.cut]

LastCallWalk == Walk(game, board, call.arg, 0 - inf, inf, call.maximizing)

(***************************************************************************)
(* C12: after get_best_move, whatever calls came before it on the same     *)
(* engine, nodes_evaluated is the number of minimax invocations of this    *)
(* call (one per position visited, leaf or interior) and pruning_count is  *)
(* the number of its cutoffs: the counters start from zero in every call.  *)
(***************************************************************************)
C12_StatisticsOfLastCall ==
    call.op = "get_best_move" =>
        /\ nodes_evaluated = Cardinality(LastCallWalk.invoked)
        /\ pruning_count = Cardinality(LastCallWalk.cut)

\* a call later in the game that visited interior and leaf nodes and cut off
C12_Witness ==
    /\ call.op = "get_best_move"
    /\ board # <<>>
    /\ pruning_count >= 1
    /\ nodes_evaluated >= 3
    /\ nodes_evaluated = Cardinality(LastCallWalk.invoked)


\* the invocation on top has its child's score in ret and is about to undo
\* the move and update its bound
ChildExplored == frames # <<>> /\ Top.pc = "wait"

\* the window of the invocation on top after its bound is updated with the
\* score of the child just explored
UpdatedAlpha ==
    IF Top.maximizing_player /\ ret[1] > Top.alpha THEN ret[1] ELSE Top.alpha

UpdatedBeta ==
    IF ~Top.maximizing_player /\ ret[1] < Top.beta THEN ret[1] ELSE Top.beta

(***************************************************************************)
(* C13: when a child has been explored and beta <= alpha holds after the   *)
(* update, the node returns at once (no further sibling is explored) and   *)
(* pruning_count grows by one; when beta > alpha the node goes on to its   *)
(* next sibling and pruning_count stays; no other step changes             *)
(* pruning_count.                                                          *)
(***************************************************************************)
C13_CutoffExactly ==
    [][ IF ChildExplored
        THEN IF UpdatedBeta <= UpdatedAlpha
             THEN /\ pruning_count' = pruning_count + 1
                  /\ frames' = SubSeq(frames, 1, Len(frames) - 1)
             ELSE /\ pruning_count' = pruning_count
                  /\ Len(frames') = Len(frames)
                  /\ frames'[Len(frames)].pc = "loop"
                  /\ frames'[Len(frames)].i = Top.i + 1
        ELSE pruning_count' = pruning_count ]_vars

\* a second cutoff is about to happen with siblings left unexplored
C13_Witness ==
    /\ ChildExplored
    /\ UpdatedBeta <= UpdatedAlpha
    /\ Top.i < Len(Top.moves)
    /\ pruning_count >= 1


(***************************************************************************)
(* C14: a search of any depth d >= 0 from any position, terminal positions *)
(* and positions without legal moves included, returns, and never has more *)
(* than d invocations below the root invocation.                           *)
(***************************************************************************)
C14_Terminates ==
    /\ <>Returned
    /\ [](Len(frames) <= call.arg + 1)

\* an invocation d = 3 levels below the root, on a position with no legal move
C14_Witness ==
    /\ call.op = "running"
    /\ call.arg >= 3
    /\ Len(frames) = call.arg + 1
    /\ legal_moves(game, board) = <<>>


Ordered == call.op = "get_ordered_moves"

\* the elements of a sequence
Range(seq) == {seq[p] : p \in 1..Len(seq)}

(***************************************************************************)
(* C15: get_ordered_moves returns every legal move of the position exactly *)
(* once and nothing else; between two moves and after the return the move  *)
(* stack is the one at call entry, and while a move is applied to test for *)
(* check it is the only one applied.                                       *)
(***************************************************************************)
C15_PermutationAndRestored ==
    /\ (Ordered =>
            /\ Len(ret[1]) = Len(legal_moves(game, entry))
            /\ Range(ret[1]) = 1..Len(legal_moves(game, entry))
            /\ board = entry)
    /\ (frames # <<>> /\ Top.pc = "key" => board = entry)
    /\ (frames # <<>> /\ Top.pc = "pushed" =>
            board = push(entry, Top.moves[Top.i]))

\* three legal moves were keyed, one of them giving check, and returned
C15_Witness ==
    /\ Ordered
    /\ Len(ret[1]) = 3
    /\ \E m \in 1..3 : is_check(game, push(entry, m))
    /\ board = entry


(***************************************************************************)
(* C16: in the list get_ordered_moves returns the priorities never         *)
(* increase, and two moves of equal priority keep the order they have in   *)
(* the legal-move enumeration (moves are numbered in that order); the list *)
(* is the one the search iterates over.                                    *)
(***************************************************************************)
C16_SortedDescendingStable ==
    Ordered =>
        /\ \A p, q \in 1..Len(ret[1]) :
              p < q =>
                 \/ move_priority(game, entry, ret[1][p]) > move_priority(game, entry, ret[1][q])
                 \/ /\ move_priority(game, entry, ret[1][p]) = move_priority(game, entry, ret[1][q])
                    /\ ret[1][p] < ret[1][q]
        /\ ret[1] = get_ordered_moves(game, entry)

\* a returned list where a later-enumerated move overtook an earlier one and
\* two moves of equal priority kept their order
C16_Witness ==
    /\ Ordered
    /\ \E p, q \in 1..Len(ret[1]) : p < q /\ ret[1][p] > ret[1][q]
    /\ \E p, q \in 1..Len(ret[1]) :
          /\ p < q
          /\ move_priority(game, entry, ret[1][p]) = move_priority(game, entry, ret[1][q])


\* the type of the piece a move captures: the piece on the destination
\* square, or the pawn beside it for an en passant capture
Victim(m) == IF m.en_passant THEN "PAWN" ELSE m.at_to

(***************************************************************************)
(* C17 as stated: the priority of every legal move is the sum of           *)
(* 10 x victim value - attacker value for every capture, en passant        *)
(* included (pawn 1, knight 3, bishop 3, rook 5, queen 9, king 100), 900   *)
(* for a check, 800 for a promotion and 50 for a destination whose file    *)
(* and rank are both among the four central ones.                          *)
(***************************************************************************)
C17_PriorityIsSumOfFourTerms ==
    call.op = "move_priority" =>
        LET m == call.arg
            value == [t \in PieceTypes |->
                        CASE t = "PAWN" -> 1 [] t = "KNIGHT" -> 3 [] t = "BISHOP" -> 3
                          [] t = "ROOK" -> 5 [] t = "QUEEN" -> 9 [] t = "KING" -> 100]
        IN  ret[1] =
                (IF Victim(m) # "NONE" THEN 10 * value[Victim(m)] - value[m.at_from]
                                       ELSE 0)
              + (IF m.gives_check THEN 900 ELSE 0)
              + (IF m.promotion # "NONE" THEN 800 ELSE 0)
              + (IF m.to_file \in 2..5 /\ m.to_rank \in 2..5 THEN 50 ELSE 0)


\* stalemate or insufficient material, and not checkmate
DrawnPosition(g, b) ==
    /\ \/ (Len(Node(g, b).moves) = 0 /\ ~Node(g, b).check)
       \/ Node(g, b).draw = "insufficient"
    /\ ~(Len(Node(g, b).moves) = 0 /\ Node(g, b).check)

(***************************************************************************)
(* C18: on a position that is stalemate or has insufficient material (and  *)
(* is not checkmate) evaluate_board gives 0, and a search of any depth     *)
(* returns the score 0 and the move None, even when legal moves exist.     *)
(***************************************************************************)
C18_DrawnIsZero ==
    DrawnPosition(game, board) =>
        /\ evaluate_board(game, board) = 0
        /\ (Searched => ret = << 0, None >>)

\* a search of depth >= 2 on a position with insufficient material, legal
\* moves and a heuristic value other than 0
C18_Witness ==
    /\ Searched
    /\ call.arg >= 2
    /\ Node(game, board).draw = "insufficient"
    /\ Len(Node(game, board).moves) > 0
    /\ Node(game, board).score # 0
    /\ ret = << 0, None >>


(***************************************************************************)
(* Reference definitions for the evaluator.                                *)
(***************************************************************************)
Evaluated == call.op = "evaluate_board"

RECURSIVE SumSeq(_)
SumSeq(s) == IF s = <<>> THEN 0 ELSE Head(s) + SumSeq(Tail(s))

\* the piece-value sum of one color, with the values of the statement
MaterialOf(color) ==
    LET value == [t \in PieceTypes |->
                    CASE t = "PAWN" -> 100 [] t = "KNIGHT" -> 320 [] t = "BISHOP" -> 330
                      [] t = "ROOK" -> 500 [] t = "QUEEN" -> 900 [] t = "KING" -> 20000]
    IN  SumSeq([k \in 1..Len(position.pieces) |->
                  IF position.pieces[k].color = color
                  THEN value[position.pieces[k].piece_type] ELSE 0])

TableOf(piece_type) ==
    CASE piece_type = "PAWN" -> PAWN_TABLE
      [] piece_type = "KNIGHT" -> KNIGHT_TABLE
      [] piece_type = "BISHOP" -> BISHOP_TABLE
      [] piece_type = "ROOK" -> ROOK_TABLE
      [] piece_type = "QUEEN" -> QUEEN_TABLE
      [] piece_type = "KING" -> IF is_endgame(position.pieces) THEN KING_END_GAME_TABLE
                                ELSE KING_MIDDLE_GAME_TABLE

\* the piece-square sum of one color; a black piece on rank r reads the
\* entry of the same file on rank 7 - r
PieceSquareOf(color) ==
    SumSeq([k \in 1..Len(position.pieces) |->
              LET piece == position.pieces[k]
                  square == IF color = BLACK
                            THEN piece.square + 56 - 16 * (piece.square \div 8)
                            ELSE piece.square
              IN  IF piece.color = color THEN TableOf(piece.piece_type)[square + 1]
                  ELSE 0])

(***************************************************************************)
(* C19: for a position that is not checkmate, stalemate or insufficient    *)
(* material, ten times the value evaluate_board returns is                 *)
(* 10 x material + positional + 20 x mobility: material and positional are *)
(* white's sum minus black's (black's squares mirrored vertically), and    *)
(* mobility is the legal-move count with white to move minus the count     *)
(* with black to move, whichever side is to move.                          *)
(***************************************************************************)
C19_WeightedSum ==
    (Evaluated /\ position.status = "none") =>
        ret[1] = 10 * (MaterialOf(WHITE) - MaterialOf(BLACK))
                 + (PieceSquareOf(WHITE) - PieceSquareOf(BLACK))
                 + 20 * (position.moves_white - position.moves_black)

\* black to move, a queen and a black pawn on the board, unequal mobility,
\* and a value that is not a whole number
C19_Witness ==
    /\ Evaluated
    /\ position.status = "none"
    /\ position.turn = BLACK
    /\ position.moves_white # position.moves_black
    /\ \E k \in 1..Len(position.pieces) :
          position.pieces[k].piece_type = "PAWN" /\ position.pieces[k].color = BLACK
    /\ \E k \in 1..Len(position.pieces) : position.pieces[k].piece_type = "QUEEN"
    /\ ret[1] % 10 = 5

(***************************************************************************)
(* C20: evaluate_board changes nothing of the position: the side to move,  *)
(* the pieces and the move stack after the call are those before it, for   *)
(* terminal and non-terminal positions and either side to move.            *)
(***************************************************************************)
C20_PositionUnchanged ==
    [][position' = position /\ board' = board]_vars

\* black to move in a non-terminal position: the mobility computation has
\* set board.turn to white and back
C20_Witness ==
    /\ Evaluated
    /\ position.status = "none"
    /\ position.turn = BLACK
    /\ position.moves_white > 0


MirrorColors(pieces) ==
    SortedBySquare({[square |-> pieces[k].square + 56 - 16 * (pieces[k].square \div 8),
                     piece_type |-> pieces[k].piece_type,
                     color |-> ~pieces[k].color] : k \in 1..Len(pieces)})

MaterialScore(pieces) ==
    count_material(pieces, WHITE, 1) - count_material(pieces, BLACK, 1)

PositionalScore(pieces) == positional_score(pieces, is_endgame(pieces), 1)

(***************************************************************************)
(* C22: the material score of the color-mirrored position is the negation  *)
(* of the material score of the position, and so is the positional         *)
(* (piece-square) score.                                                   *)
(***************************************************************************)
C22_MirrorNegates ==
    Evaluated =>
        /\ MaterialScore(MirrorColors(position.pieces)) = 0 - MaterialScore(position.pieces)
        /\ PositionalScore(MirrorColors(position.pieces)) = 0 - PositionalScore(position.pieces)

\* an evaluated position with unequal material and a non-zero positional
\* score, whose mirror is a different position
C22_Witness ==
    /\ Evaluated
    /\ position.status = "none"
    /\ MaterialScore(position.pieces) > 0
    /\ PositionalScore(position.pieces) # 0
    /\ MirrorColors(position.pieces) # position.pieces
    /\ PositionalScore(MirrorColors(position.pieces)) = 0 - PositionalScore(position.pieces)


\* the scores of the children the invocation on top has explored, the one
\* just returned included
ExploredScores == Range(Top.explored) \cup {ret[1]}

(***************************************************************************)
(* C23: when a node cuts off, the score it returns is the best score among *)
(* the children it explored, the cutting child included (the maximum at a  *)
(* maximizing node, the minimum at a minimizing node), and it is finite:   *)
(* neither +infinity nor -infinity.                                        *)
(***************************************************************************)
C23_CutoffReturnsBestExplored ==
    [][ (ChildExplored /\ UpdatedBeta <= UpdatedAlpha) =>
            /\ ret'[1] = IF Top.maximizing_player THEN SetMax(ExploredScores)
                         ELSE SetMin(ExploredScores)
            /\ ret'[1] > 0 - inf
            /\ ret'[1] < inf ]_vars

\* a minimizing node is about to cut off on its second or later child
C23_Witness ==
    /\ ChildExplored
    /\ UpdatedBeta <= UpdatedAlpha
    /\ ~Top.maximizing_player
    /\ Len(Top.explored) >= 1


(***************************************************************************)
(* C24: a node searched with a window alpha < beta returns a value v that  *)
(* relates to its unpruned minimax value m of the same depth: v = m when   *)
(* alpha < v < beta, m <= v when v <= alpha, m >= v when v >= beta; and    *)
(* every invocation on the call stack has alpha < beta.                    *)
(***************************************************************************)
C24_WindowBoundsValue ==
    /\ \A k \in 1..Len(frames) : frames[k].alpha < frames[k].beta
    /\ Returned =>
          LET v == ret[1]
              m == unpruned(game, entry, call.arg, call.maximizing)
          IN  /\ (call.alpha < v /\ v < call.beta) => v = m
              /\ v <= call.alpha => m <= v
              /\ v >= call.beta => m >= v

\* a search with a finite window that cut off and returned a bound, not the
\* exact value
C24_Witness ==
    /\ Returned
    /\ call.alpha > 0 - inf
    /\ call.beta < inf
    /\ pruning_count >= 1
    /\ ret[1] # unpruned(game, entry, call.arg, call.maximizing)


(***************************************************************************)
(* C25 as stated: on a position the Rules Engine reports as game over by   *)
(* any rule (checkmate, stalemate, insufficient material, a move-count or  *)
(* repetition draw) a search of any depth returns CHECKMATE_SCORE,         *)
(* -CHECKMATE_SCORE or 0, never a heuristic value.                         *)
(***************************************************************************)
C25_GameOverScoreIsSentinel ==
    (Searched /\ is_game_over(game, board)) =>
        ret[1] \in {CHECKMATE_SCORE, 0 - CHECKMATE_SCORE, 0}


\* C26: in human-vs-AI mode an undo invoked on the human's turn with at least
\* two moves on the stack removes the AI's last move and the human's move
\* before it, leaving the human to move; and no undo in that mode that leaves
\* moves on the stack leaves the AI as the side to move.
C26_UndoRestoresHumanTurn ==
    [][(undo_move /\ game_mode = "human_vs_ai") =>
          /\ (turn(game, board) = human_color /\ Len(board) >= 2) =>
                 (board' = pop(pop(board)) /\ turn(game, board') = human_color)
          /\ Len(board') > 0 => turn(game, board') = human_color]_vars


\* the ai_vs_ai_loop callbacks pending
PendingLoops == {k \in 1..Len(timers) : timers[k].callback = "ai_vs_ai_loop"}

\* a scheduled make_ai_move pushes an engine move in human-vs-AI mode
AppliesInHumanVsAi ==
    /\ \E k \in 1..MaxTimers : timer_make_ai_move(k)
    /\ game_mode = "human_vs_ai"
    /\ board' # board

\* C29: in the desktop GUI, whatever the user does between the callbacks, a
\* scheduled make_ai_move applies an engine move in human-vs-AI mode only when
\* the side to move is not the human's color and the game is not over, and at
\* most one AI-vs-AI loop is active at any time.
C29_TimersGuarded ==
    /\ [](game_mode = "ai_vs_ai" => Cardinality(PendingLoops) <= 1)
    /\ [][AppliesInHumanVsAi =>
            (turn(game, board) # human_color /\ ~is_game_over(game, board))]_vars


\* the line entered in the last round, stripped
Entered == strip(call.arg)

\* C28: get_difficulty_choice returns only for one of the single characters
\* '1' to '6', and then returns that integer; for every other line, the empty
\* one and multi-digit ones included, it reports the error and prompts again:
\* it raises nothing and returns nothing outside 1..6.
C28_OnlySingleDigitsAccepted ==
    (call.op = "get_difficulty_choice" /\ ret # <<>>) =>
        IF Len(Entered) = 1 /\ Entered[1] \in {"1", "2", "3", "4", "5", "6"}
        THEN ret[1].outcome = "return" /\ ret[1].level = DigitValue(Entered[1])
        ELSE ret[1].outcome = "prompt again"


\* a game has just been started from the menu
GameStarted == call.op \in {"play_game", "ai_vs_ai"}

\* every engine of the game just started searches to current_difficulty
UsesCurrentDifficulty == \A i \in 1..Len(ret) : ret[i] = current_difficulty

\* C27: the level chosen through 'Set Difficulty Level' is stored in
\* current_difficulty and is the search depth of the games started
\* afterwards, human-vs-AI or AI-vs-AI, until it is changed again: stated
\* for the game started next after the level was set.
C27_DifficultyUsedByLaterGames ==
    /\ [][call'.op = "set_difficulty" => current_difficulty' = call'.arg]_vars
    /\ [][(call.op = "set_difficulty" /\ GameStarted') => UsesCurrentDifficulty']_vars


\* the search of the request in flight has moves applied and not yet undone
SearchHasApplied == InFlight /\ ~Raced /\ frames # <<>> /\ Len(board) > Len(entry)

\* a request other than the one searching reads or writes the board
OtherRequest ==
    \/ api_board
    \/ \E move \in 1..MaxMoves : api_move(move)
    \/ \E color \in BOOLEAN, mode \in {"human_vs_ai", "ai_vs_ai"} :
            api_new_game(color, mode)
    \/ api_undo
    \/ api_hint

\* the statistics of the search of the request in flight, run alone
OwnStatistics ==
    LET r == minimax(game, entry, depth, root_window.alpha, root_window.beta,
                     turn(game, entry) = WHITE)
    IN  << r.nodes, r.prunes >>

\* C30: in the web GUI no request reads or writes the board while another
\* request's search has applied-but-not-undone moves on it, and the
\* statistics /api/ai_move reports are those of its own search.
C30_SearchIsolated ==
    /\ [][OtherRequest => ~SearchHasApplied]_vars
    /\ [][(api_ai_move_end /\ call'.arg # <<>>) => call'.arg = OwnStatistics]_vars

====
